---- MODULE Spec2Model ----
(***************************************************************************)
(* Model of the error tree of not-so-fast (not-so-fast/src/lib.rs):        *)
(* ValidationNode with its constructors and combinators, driven by a       *)
(* client that owns two nodes and moves them into the library calls.     *)
(***************************************************************************)
EXTENDS Integers, Sequences, FiniteSets, TLC

\* ------------------------------------------------------------------ bounds
\* Errors plus child entries the client holds live over its two slots.
MaxWeight == 4
\* Longest iterator handed to errors / fields / items and their and_* forms.
MaxLen == 2
\* Steps plus name characters of the paths handed to fmt_path.
MaxPathWeight == 4
\* and_param calls the client makes on one error.
MaxParamCalls == 2

\* ---------------------------------------------------------- sample inputs
\* Error codes the client uses.
Codes == <<"E1", "E2">>
\* Field names in BTreeMap (lexicographic) order.
Names == <<"1", "2">>
\* Keys of the dynamic maps handed to fields(): K = integer, K: ToString.
Keys == {1, 2}
\* Item indices handed to item() / and_item().
Indices == {0, 1}
\* Values of the validated collections: 0 is valid, 1 is not.
Values == {0, 1}
\* The client's two owned nodes.
Slots == {"x", "y"}

\* Messages the client sets with and_message.
Messages == {"bad", ""}
\* Parameter names in BTreeMap (lexicographic) order.
ParamNames == <<"max", "min", "value">>

\* The field names and the parameter names of the client and of the derived
\* code, in the order of Ord for str: bytewise, digits before letters.
NameOrder == Names \o <<"age", "cars", "nick", "v", "w", "x", "y", "z">>
ParamOrder == <<"equal">> \o ParamNames

\* --------------------------------------------------------------------- str
\* str::chars: a formatter sees a string as the sequence of its characters.
chars(s) ==
    CASE s = ""      -> <<>>
      [] s = "1"     -> <<"1">>
      [] s = "2"     -> <<"2">>
      [] s = "E1"    -> <<"E", "1">>
      [] s = "E2"    -> <<"E", "2">>
      [] s = "bad"   -> <<"b", "a", "d">>
      [] s = "max"   -> <<"m", "a", "x">>
      [] s = "min"   -> <<"m", "i", "n">>
      [] s = "value" -> <<"v", "a", "l", "u", "e">>
      [] s = "true"  -> <<"t", "r", "u", "e">>
      [] s = "false" -> <<"f", "a", "l", "s", "e">>
      [] s = "1\n2"  -> <<"1", "\n", "2">>
      [] s = "5\n6"  -> <<"5", "\n", "6">>
      [] s = "equal" -> <<"e", "q", "u", "a", "l">>
      [] s = "age" -> <<"a", "g", "e">>
      [] s = "cars" -> <<"c", "a", "r", "s">>
      [] s = "nick" -> <<"n", "i", "c", "k">>
      [] s = "v" -> <<"v">>
      [] s = "w" -> <<"w">>
      [] s = "x" -> <<"x">>
      [] s = "y" -> <<"y">>
      [] s = "z" -> <<"z">>
      [] s = "a" -> <<"a">>
      [] s = "b" -> <<"b">>
      [] s = "c" -> <<"c">>
      [] s = "range" -> <<"r", "a", "n", "g", "e">>
      [] s = "length" -> <<"l", "e", "n", "g", "t", "h">>
      [] s = "char_length" -> <<"c", "h", "a", "r", "_", "l", "e", "n", "g", "t", "h">>
      [] s = "alpha_only" -> <<"a", "l", "p", "h", "a", "_", "o", "n", "l", "y">>
      [] s = "Number not in range" -> <<"N", "u", "m", "b", "e", "r", " ", "n", "o", "t", " ", "i", "n", " ", "r", "a", "n", "g", "e">>
      [] s = "Invalid length" -> <<"I", "n", "v", "a", "l", "i", "d", " ", "l", "e", "n", "g", "t", "h">>
      [] s = "Invalid character length" -> <<"I", "n", "v", "a", "l", "i", "d", " ", "c", "h", "a", "r", "a", "c", "t", "e", "r", " ", "l", "e", "n", "g", "t", "h">>

\* -------------------------------------------------------------- ParamValue
\* The variants the client and the derived code use; the integer variants
\* hold the non-negative numbers of the samples.
Bool(value) == [variant |-> "Bool", bool |-> value]
Usize(value) == [variant |-> "Usize", usize |-> value]
U8(value) == [variant |-> "U8", usize |-> value]
I32(value) == [variant |-> "I32", usize |-> value]
String(value) == [variant |-> "String", str |-> value]
Raw(value) == [variant |-> "Raw", str |-> value]

ParamValues == {Bool(TRUE), Usize(200), String("1\n2"), Raw("5\n6")}

\* --------------------------------------------------------- ValidationError
NoMessage == "None"

with_code(code) == [code |-> code, message |-> NoMessage, params |-> <<>>]

and_message(self, message) == [self EXCEPT !.message = message]

\* self.params.insert(key, value): the last value for a key is kept.
and_param(self, key, value) ==
    [self EXCEPT !.params =
        [k \in DOMAIN self.params \cup {key} |->
            IF k = key THEN value ELSE self.params[k]]]

\* The errors the client attaches to its nodes: a bare code, and a code with
\* a raw parameter that spans two lines.
Errors ==
    {with_code(Codes[1]), and_param(with_code(Codes[2]), "value", Raw("5\n6"))}

\* ---------------------------------------------------------- BTreeMap model
\* A map is a function from its keys to its values; <<>> is the empty map.
EmptyMap == <<>>

RECURSIVE AscendingInts(_)
AscendingInts(S) ==
    IF S = {} THEN <<>>
    ELSE LET m == CHOOSE k \in S : \A j \in S : k <= j
         IN <<m>> \o AscendingInts(S \ {m})

\* Iteration order of BTreeMap<Cow<str>, _>: ascending names.
field_keys(map) == SelectSeq(NameOrder, LAMBDA n : n \in DOMAIN map)

\* Iteration order of BTreeMap<usize, _>: ascending indices.
item_keys(map) == AscendingInts(DOMAIN map)

\* Faulty variant of entry_insert: the map is rebuilt around the new entry and
\* the entries it held are dropped.
entry_insert_alone(map, key, value) ==
    [k \in {key} |-> value]

\* VacantEntry::insert
entry_insert(map, key, value) ==
    [k \in DOMAIN map \cup {key} |-> IF k = key THEN value ELSE map[k]]

\* ---------------------------------------------------------- ValidationNode
ok == [errors |-> <<>>, fields |-> EmptyMap, items |-> EmptyMap]

\* Faulty variant of is_ok: the items map is not looked at.
is_ok_ignoring_items(self) ==
    self.errors = <<>> /\ DOMAIN self.fields = {}

is_ok(self) ==
    self.errors = <<>> /\ DOMAIN self.fields = {} /\ DOMAIN self.items = {}

is_err(self) == ~is_ok(self)

RECURSIVE merge_in_place(_, _)
RECURSIVE merge_entries(_, _, _)

\* Faulty variant of entry_merge: the incoming value replaces the stored one.
entry_overwrite(map, key, value) ==
    [map EXCEPT ![key] = value]

\* Entry::Occupied arm: merge the incoming value into the stored one.
entry_merge(map, key, value) ==
    [map EXCEPT ![key] = merge_in_place(@, value)]

\* Faulty variant of entry_or_merge: an occupied entry keeps the stored value
\* and the incoming one is dropped.
entry_or_keep(map, key, value) ==
    IF key \notin DOMAIN map
    THEN entry_insert(map, key, value)
    ELSE map

\* match self.<map>.entry(key) { Vacant => insert, Occupied => merge_in_place }
entry_or_merge(map, key, value) ==
    IF key \notin DOMAIN map
    THEN entry_insert(map, key, value)
    ELSE entry_merge(map, key, value)

\* Faulty variant of merge_entries: the loop stops after the first entry of other.
merge_entries_first_only(selfMap, otherMap, keys) ==
    IF keys = <<>> THEN selfMap
    ELSE entry_or_merge(selfMap, Head(keys), otherMap[Head(keys)])

\* for (key, value) in other.<map> { match self.<map>.entry(key) ... }
merge_entries(selfMap, otherMap, keys) ==
    IF keys = <<>> THEN selfMap
    ELSE merge_entries(entry_or_merge(selfMap, Head(keys), otherMap[Head(keys)]),
                       otherMap, Tail(keys))

\* Faulty variant of merge_in_place: the loop over other.items is missing.
merge_in_place_without_items(self, other) ==
    [errors |-> self.errors \o other.errors,
     fields |-> merge_entries(self.fields, other.fields, field_keys(other.fields)),
     items  |-> self.items]

\* Faulty variant of merge_in_place: other's errors are appended twice.
merge_in_place_errors_twice(self, other) ==
    [errors |-> (self.errors \o other.errors) \o other.errors,
     fields |-> merge_entries(self.fields, other.fields, field_keys(other.fields)),
     items  |-> merge_entries(self.items, other.items, item_keys(other.items))]

merge_in_place(self, other) ==
    [errors |-> self.errors \o other.errors,
     fields |-> merge_entries(self.fields, other.fields, field_keys(other.fields)),
     items  |-> merge_entries(self.items, other.items, item_keys(other.items))]

merge(self, other) == merge_in_place(self, other)

error(e) == [errors |-> <<e>>, fields |-> EmptyMap, items |-> EmptyMap]

and_error(self, e) == [self EXCEPT !.errors = Append(@, e)]

\* A closure f: FnOnce() -> ValidationError is the error it builds; invoking
\* it is recorded in the log of calls.
invoke(f, log) == [value |-> f, log |-> Append(log, "f")]

\* Faulty variant of error_if: f is invoked before the condition is tested.
error_if_eager(condition, f) ==
    LET r == invoke(f, <<>>)
    IN [node |-> [errors |-> IF condition THEN <<r.value>> ELSE <<>>,
                  fields |-> EmptyMap, items |-> EmptyMap],
        f_calls |-> r.log]

error_if(condition, f) ==
    IF condition
    THEN LET r == invoke(f, <<>>)
         IN [node |-> [errors |-> <<r.value>>, fields |-> EmptyMap, items |-> EmptyMap],
             f_calls |-> r.log]
    ELSE [node |-> [errors |-> <<>>, fields |-> EmptyMap, items |-> EmptyMap],
          f_calls |-> <<>>]

and_error_if(self, condition, f) ==
    IF condition
    THEN LET r == invoke(f, <<>>)
         IN [node |-> [self EXCEPT !.errors = Append(@, r.value)], f_calls |-> r.log]
    ELSE [node |-> self, f_calls |-> <<>>]

\* errors: impl Iterator<Item = ValidationError>, collected in order.
errors(iter) == [errors |-> iter, fields |-> EmptyMap, items |-> EmptyMap]

\* Faulty variant of and_errors: the new errors go before the receiver's.
and_errors_prepending(self, iter) == [self EXCEPT !.errors = iter \o @]

and_errors(self, iter) == [self EXCEPT !.errors = @ \o iter]

field(name, validation_errors) ==
    [errors |-> <<>>,
     fields |-> IF ~is_ok(validation_errors)
                THEN entry_insert(EmptyMap, name, validation_errors)
                ELSE EmptyMap,
     items  |-> EmptyMap]

\* Faulty variant of and_field: the child is attached without the is_ok test.
and_field_unchecked(self, name, validation_errors) ==
    [self EXCEPT !.fields = entry_or_merge(@, name, validation_errors)]

and_field(self, name, validation_errors) ==
    IF ~is_ok(validation_errors)
    THEN [self EXCEPT !.fields = entry_or_merge(@, name, validation_errors)]
    ELSE self

\* Faulty variant of and_item: BTreeMap::insert in place of the entry match.
and_item_overwriting(self, index, validation_errors) ==
    IF ~is_ok(validation_errors)
    THEN [self EXCEPT !.items = entry_insert(@, index, validation_errors)]
    ELSE self

\* Faulty variant of and_item: the child is attached without the is_ok test.
and_item_unchecked(self, index, validation_errors) ==
    [self EXCEPT !.items = entry_or_merge(@, index, validation_errors)]

item(index, validation_errors) ==
    [errors |-> <<>>,
     fields |-> EmptyMap,
     items  |-> IF ~is_ok(validation_errors)
                THEN entry_insert(EmptyMap, index, validation_errors)
                ELSE EmptyMap]

and_item(self, index, validation_errors) ==
    IF ~is_ok(validation_errors)
    THEN [self EXCEPT !.items = entry_or_merge(@, index, validation_errors)]
    ELSE self

\* K: ToString for the integer keys of a dynamic map.
to_string(key) == CASE key = 1 -> "1" [] key = 2 -> "2"

\* The closure the client hands to fields / items, as in the doc examples:
\* |_key, value| ValidationNode::error_if(*value > 0, || with_code("E1")).
validate_value(key, value) == error_if(value > 0, with_code(Codes[1])).node

\* Faulty variant of fields_step: the key is converted before the result is tested.
fields_step_eager_key(acc, key, value) ==
    LET validation_errors == validate_value(key, value)
        key_owned == to_string(key)
    IN  [node |-> IF ~is_ok(validation_errors)
                  THEN and_field(acc.node, key_owned, validation_errors)
                  ELSE acc.node,
         f_calls |-> Append(acc.f_calls, key),
         to_string_calls |-> acc.to_string_calls + 1]

\* One step of the fold in fields(): acc carries the node built so far, the
\* keys f was called with and the number of key.to_string() calls.
fields_step(acc, key, value) ==
    LET validation_errors == validate_value(key, value)
        called == Append(acc.f_calls, key)
    IN  IF ~is_ok(validation_errors)
        THEN [node |-> and_field(acc.node, to_string(key), validation_errors),
              f_calls |-> called,
              to_string_calls |-> acc.to_string_calls + 1]
        ELSE [node |-> acc.node,
              f_calls |-> called,
              to_string_calls |-> acc.to_string_calls]

RECURSIVE fields_fold(_, _)
fields_fold(acc, iterator) ==
    IF iterator = <<>> THEN acc
    ELSE fields_fold(fields_step(acc, Head(iterator).key, Head(iterator).value),
                     Tail(iterator))

fields(iterator) ==
    fields_fold([node |-> ok, f_calls |-> <<>>, to_string_calls |-> 0], iterator)

and_fields(self, iterator) ==
    LET r == fields(iterator)
    IN  [node |-> merge(self, r.node),
         f_calls |-> r.f_calls,
         to_string_calls |-> r.to_string_calls]

\* Faulty variant of items_step: every result is stored, ok or not.
items_step_storing_ok(acc, index, value) ==
    [node |-> [acc.node EXCEPT !.items =
                  entry_or_merge(@, index, validate_value(index, value))],
     f_calls |-> Append(acc.f_calls, index)]

\* One step of the fold in items(): index comes from enumerate().
items_step(acc, index, value) ==
    [node |-> and_item(acc.node, index, validate_value(index, value)),
     f_calls |-> Append(acc.f_calls, index)]

\* Faulty variant of items_fold: the index counts the failures, not the positions.
RECURSIVE items_fold_by_rank(_, _, _)
items_fold_by_rank(acc, index, iterator) ==
    IF iterator = <<>> THEN acc
    ELSE items_fold_by_rank(items_step(acc, index, Head(iterator)),
                            IF Head(iterator) > 0 THEN index + 1 ELSE index,
                            Tail(iterator))

RECURSIVE items_fold(_, _, _)
items_fold(acc, index, iterator) ==
    IF iterator = <<>> THEN acc
    ELSE items_fold(items_step(acc, index, Head(iterator)), index + 1, Tail(iterator))

items(iterator) == items_fold([node |-> ok, f_calls |-> <<>>], 0, iterator)

and_items(self, iterator) ==
    LET r == items(iterator)
    IN  [node |-> merge(self, r.node), f_calls |-> r.f_calls]

\* Faulty variant of first: the items are looked at before the fields.
RECURSIVE first_items_before_fields(_)
first_items_before_fields(self) ==
    IF self.errors # <<>>
    THEN [errors |-> <<Head(self.errors)>>, fields |-> EmptyMap, items |-> EmptyMap]
    ELSE IF DOMAIN self.items # {}
    THEN LET index == Head(item_keys(self.items))
         IN [errors |-> <<>>,
             fields |-> EmptyMap,
             items  |-> entry_insert(EmptyMap, index,
                                     first_items_before_fields(self.items[index]))]
    ELSE IF DOMAIN self.fields # {}
    THEN LET key == Head(field_keys(self.fields))
         IN [errors |-> <<>>,
             fields |-> entry_insert(EmptyMap, key,
                                     first_items_before_fields(self.fields[key])),
             items  |-> EmptyMap]
    ELSE ok

\* Faulty variant of first: the last direct error is kept, not the first.
RECURSIVE first_keeping_last_error(_)
first_keeping_last_error(self) ==
    IF self.errors # <<>>
    THEN [errors |-> <<self.errors[Len(self.errors)]>>,
          fields |-> EmptyMap, items |-> EmptyMap]
    ELSE IF DOMAIN self.fields # {}
    THEN LET key == Head(field_keys(self.fields))
         IN [errors |-> <<>>,
             fields |-> entry_insert(EmptyMap, key,
                                     first_keeping_last_error(self.fields[key])),
             items  |-> EmptyMap]
    ELSE IF DOMAIN self.items # {}
    THEN LET index == Head(item_keys(self.items))
         IN [errors |-> <<>>,
             fields |-> EmptyMap,
             items  |-> entry_insert(EmptyMap, index,
                                     first_keeping_last_error(self.items[index]))]
    ELSE ok

RECURSIVE first(_)
first(self) ==
    IF self.errors # <<>>
    THEN [errors |-> <<Head(self.errors)>>, fields |-> EmptyMap, items |-> EmptyMap]
    ELSE IF DOMAIN self.fields # {}
    THEN LET key == Head(field_keys(self.fields))
         IN [errors |-> <<>>,
             fields |-> entry_insert(EmptyMap, key, first(self.fields[key])),
             items  |-> EmptyMap]
    ELSE IF DOMAIN self.items # {}
    THEN LET index == Head(item_keys(self.items))
         IN [errors |-> <<>>,
             fields |-> EmptyMap,
             items  |-> entry_insert(EmptyMap, index, first(self.items[index]))]
    ELSE ok

\* -------------------------------------------------------------- formatting
\* A formatter is the sequence of the characters written to it so far.
write_char(f, c) == Append(f, c)

write_str(f, s) == f \o s

Digits == <<"0", "1", "2", "3", "4", "5", "6", "7", "8", "9">>

\* Display for usize: the decimal digits, most significant first.
RECURSIVE fmt_usize(_)
fmt_usize(n) ==
    IF n < 10 THEN <<Digits[n + 1]>>
    ELSE Append(fmt_usize(n \div 10), Digits[(n % 10) + 1])

\* char::escape_default, on the characters the client's strings hold.
char_escape_default(c) ==
    CASE c = "\t" -> <<"\\", "t">>
      [] c = "\r" -> <<"\\", "r">>
      [] c = "\n" -> <<"\\", "n">>
      [] c = "'"  -> <<"\\", "'">>
      [] c = "\"" -> <<"\\", "\"">>
      [] c = "\\" -> <<"\\", "\\">>
      [] OTHER    -> <<c>>

\* str::escape_default
RECURSIVE escape_default(_)
escape_default(s) ==
    IF s = <<>> THEN <<>>
    ELSE char_escape_default(Head(s)) \o escape_default(Tail(s))

\* impl Display for ParamValue
fmt_param_value(value, f) ==
    CASE value.variant = "Bool" ->
            write_str(f, chars(IF value.bool THEN "true" ELSE "false"))
      [] value.variant \in {"Usize", "U8", "I32"} ->
            write_str(f, fmt_usize(value.usize))
      [] value.variant = "String" ->
            write_char(write_str(write_char(f, "\""),
                                 escape_default(chars(value.str))), "\"")
      [] value.variant = "Raw" ->
            write_str(f, chars(value.str))

\* Iteration order of BTreeMap<Cow<str>, ParamValue>: ascending names.
param_keys(map) == SelectSeq(ParamOrder, LAMBDA k : k \in DOMAIN map)

\* Faulty variant of fmt_params: the test on i is inverted, ", " is written
\* before the first parameter and ": " before the later ones.
RECURSIVE fmt_params_comma_first(_, _, _, _)
fmt_params_comma_first(params, keys, i, f) ==
    IF keys = <<>> THEN f
    ELSE LET separated == IF i = 0 THEN write_str(f, <<",", " ">>)
                          ELSE write_str(f, <<":", " ">>)
             keyed == write_str(write_str(separated, chars(Head(keys))), <<"=">>)
         IN fmt_params_comma_first(params, Tail(keys), i + 1,
                                   fmt_param_value(params[Head(keys)], keyed))

\* for (i, param) in error.params.iter().enumerate() { ... }
RECURSIVE fmt_params(_, _, _, _)
fmt_params(params, keys, i, f) ==
    IF keys = <<>> THEN f
    ELSE LET separated == IF i # 0 THEN write_str(f, <<",", " ">>)
                          ELSE write_str(f, <<":", " ">>)
             keyed == write_str(write_str(separated, chars(Head(keys))), <<"=">>)
         IN fmt_params(params, Tail(keys), i + 1,
                       fmt_param_value(params[Head(keys)], keyed))

fmt_error(err, f) ==
    LET coded == write_str(f, chars(err.code))
        messaged == IF err.message # NoMessage
                    THEN write_str(write_str(coded, <<":", " ">>), chars(err.message))
                    ELSE coded
    IN fmt_params(err.params, param_keys(err.params), 0, messaged)

\* enum PathElement
Name(name) == [kind |-> "Name", name |-> name]
Index(index) == [kind |-> "Index", index |-> index]

AsciiAlphanumeric ==
    {"a", "b", "c", "d", "e", "f", "g", "h", "i", "j", "k", "l", "m",
     "n", "o", "p", "q", "r", "s", "t", "u", "v", "w", "x", "y", "z",
     "A", "B", "C", "D", "E", "F", "G", "H", "I", "J", "K", "L", "M",
     "N", "O", "P", "Q", "R", "S", "T", "U", "V", "W", "X", "Y", "Z",
     "0", "1", "2", "3", "4", "5", "6", "7", "8", "9"}

is_ascii_alphanumeric(c) == c \in AsciiAlphanumeric

\* Faulty variant of write_quoted: the backslash is escaped as well.
RECURSIVE write_quoted_escaping_backslash(_, _)
write_quoted_escaping_backslash(name, f) ==
    IF name = <<>> THEN f
    ELSE write_quoted_escaping_backslash(Tail(name),
            IF Head(name) = "\"" THEN write_str(f, <<"\\", "\"">>)
            ELSE IF Head(name) = "\\" THEN write_str(f, <<"\\", "\\">>)
            ELSE write_char(f, Head(name)))

\* for c in name.chars() { if c == '"' { write "\\\"" } else { write c } }
RECURSIVE write_quoted(_, _)
write_quoted(name, f) ==
    IF name = <<>> THEN f
    ELSE write_quoted(Tail(name),
                      IF Head(name) = "\"" THEN write_str(f, <<"\\", "\"">>)
                      ELSE write_char(f, Head(name)))

fmt_path_element(element, f) ==
    IF element.kind = "Name"
    THEN LET name == element.name
         IN IF /\ name # <<>>
               /\ \A i \in 1..Len(name) : is_ascii_alphanumeric(name[i]) \/ name[i] = "_"
            THEN write_str(f, name)
            ELSE write_char(write_quoted(name, write_char(f, "\"")), "\"")
    ELSE write_char(write_str(write_char(f, "["), fmt_usize(element.index)), "]")

\* Faulty variant of fmt_path_from: the dot is written before every index.
RECURSIVE fmt_path_from_dot_always(_, _, _)
fmt_path_from_dot_always(p, i, f) ==
    IF i >= Len(p) THEN f
    ELSE fmt_path_from_dot_always(p, i + 1,
            fmt_path_element(p[i + 1], write_char(f, ".")))

\* for (i, element) in path.iter().enumerate() { ... }
RECURSIVE fmt_path_from(_, _, _)
fmt_path_from(path, i, f) ==
    IF i >= Len(path) THEN f
    ELSE LET element == path[i + 1]
             written == IF element.kind = "Name"
                        THEN fmt_path_element(element, write_char(f, "."))
                        ELSE fmt_path_element(element,
                                 IF i = 0 THEN write_char(f, ".") ELSE f)
         IN fmt_path_from(path, i + 1, written)

fmt_path(path, f) ==
    IF path = <<>> THEN write_char(f, ".")
    ELSE fmt_path_from(path, 0, f)

fmt_path_and_error(err, path, f) ==
    fmt_error(err, write_str(fmt_path(path, f), <<":", " ">>))

\* display_fmt threads two things through the traversal: the flag
\* first_printed and the formatter f.
RECURSIVE display_fmt(_, _, _)

\* Faulty variant of display_errors: the newline is written after every line.
RECURSIVE display_errors_newline_after(_, _, _)
display_errors_newline_after(errs, path, st) ==
    IF errs = <<>> THEN st
    ELSE display_errors_newline_after(Tail(errs), path,
            [first_printed |-> TRUE,
             f |-> write_char(fmt_path_and_error(Head(errs), path, st.f), "\n")])

\* for direct in self.errors.iter() { ... }
RECURSIVE display_errors(_, _, _)
display_errors(errs, path, st) ==
    IF errs = <<>> THEN st
    ELSE display_errors(Tail(errs), path,
            IF st.first_printed
            THEN [first_printed |-> TRUE,
                  f |-> fmt_path_and_error(Head(errs), path, write_char(st.f, "\n"))]
            ELSE [first_printed |-> TRUE,
                  f |-> fmt_path_and_error(Head(errs), path, st.f)])

\* for field in self.fields.iter() { push Name; recurse; pop }
RECURSIVE display_fields(_, _, _, _)
display_fields(map, keys, path, st) ==
    IF keys = <<>> THEN st
    ELSE display_fields(map, Tail(keys), path,
            display_fmt(map[Head(keys)], Append(path, Name(chars(Head(keys)))), st))

\* for item in self.items.iter() { push Index; recurse; pop }
RECURSIVE display_items(_, _, _, _)
display_items(map, keys, path, st) ==
    IF keys = <<>> THEN st
    ELSE display_items(map, Tail(keys), path,
            display_fmt(map[Head(keys)], Append(path, Index(Head(keys))), st))

\* Faulty variant of display_fmt: the items are visited before the fields.
display_fmt_items_first(self, path, st) ==
    LET after_errors == display_errors(self.errors, path, st)
        after_items == display_items(self.items, item_keys(self.items), path,
                                     after_errors)
    IN display_fields(self.fields, field_keys(self.fields), path, after_items)

display_fmt(self, path, st) ==
    LET after_errors == display_errors(self.errors, path, st)
        after_fields == display_fields(self.fields, field_keys(self.fields), path,
                                       after_errors)
    IN display_items(self.items, item_keys(self.items), path, after_fields)

\* impl Display for ValidationNode: the text of node.to_string().
display(self) == display_fmt(self, <<>>, [first_printed |-> FALSE, f |-> <<>>]).f

\* serialize_elements appends one (path, error) pair per direct error to the
\* sequence serializer; the pair is cut out of the shared buffer at path_len.
RECURSIVE serialize_elements(_, _, _)

RECURSIVE serialize_errors(_, _, _)
serialize_errors(errs, path, seq) ==
    IF errs = <<>> THEN seq
    ELSE LET pathed == fmt_path(path, <<>>)
             path_len == Len(pathed)
             buffer == fmt_error(Head(errs), pathed)
         IN serialize_errors(Tail(errs), path,
                Append(seq, <<SubSeq(buffer, 1, path_len),
                              SubSeq(buffer, path_len + 1, Len(buffer))>>))

RECURSIVE serialize_fields(_, _, _, _)
serialize_fields(map, keys, path, seq) ==
    IF keys = <<>> THEN seq
    ELSE serialize_fields(map, Tail(keys), path,
            serialize_elements(map[Head(keys)], Append(path, Name(chars(Head(keys)))), seq))

RECURSIVE serialize_items(_, _, _, _)
serialize_items(map, keys, path, seq) ==
    IF keys = <<>> THEN seq
    ELSE serialize_items(map, Tail(keys), path,
            serialize_elements(map[Head(keys)], Append(path, Index(Head(keys))), seq))

\* Faulty variant of serialize_elements: the items are visited before the fields.
serialize_elements_items_first(self, path, seq) ==
    LET after_errors == serialize_errors(self.errors, path, seq)
        after_items == serialize_items(self.items, item_keys(self.items), path,
                                       after_errors)
    IN serialize_fields(self.fields, field_keys(self.fields), path, after_items)

serialize_elements(self, path, seq) ==
    LET after_errors == serialize_errors(self.errors, path, seq)
        after_fields == serialize_fields(self.fields, field_keys(self.fields), path,
                                         after_errors)
    IN serialize_items(self.items, item_keys(self.items), path, after_fields)

\* impl serde::Serialize for ValidationNode: the elements of the sequence.
serialize(self) == serialize_elements(self, <<>>, <<>>)

\* Faulty variant of result: only the direct errors are looked at.
result_ignoring_children(self) ==
    IF self.errors = <<>> THEN [variant |-> "Ok", value |-> <<>>]
    ELSE [variant |-> "Err", value |-> self]

\* fn result(self) -> Result<(), Self>
result(self) ==
    IF is_ok(self) THEN [variant |-> "Ok", value |-> <<>>]
    ELSE [variant |-> "Err", value |-> self]

\* ------------------------------------------------- the derive macro: parse
\* Option<T>
None == [is_some |-> FALSE]
Some(value) == [is_some |-> TRUE, value |-> value]

\* syn::Result<T>
SynOk(value) == [variant |-> "Ok", value |-> value]
SynError(message) == [variant |-> "Err", message |-> message]

\* The ? of Rust: what is not Ok is returned as it is, the value of an Ok is
\* handed on.
Try(returned, Continue(_)) ==
    IF returned.variant # "Ok" THEN returned ELSE Continue(returned.value)

\* The tokens of one argument of a validate attribute, as the client wrote
\* them: its leading identifier and, by its form, a function path
\* (custom = path), declared names (args(a: T, ..)), name = value pairs
\* (length(min = 1, ..)) or arguments of its own (items(..)); paren tells
\* whether a parenthesized list follows the identifier.
Tokens(ident) ==
    [ident |-> ident, paren |-> FALSE, function |-> "", names |-> <<>>,
     pairs |-> <<>>, inner |-> <<>>]

custom_tokens(function) == [Tokens("custom") EXCEPT !.function = function]
args_tokens(names) == [Tokens("args") EXCEPT !.paren = TRUE, !.names = names]
pairs_tokens(ident, pairs) == [Tokens(ident) EXCEPT !.paren = TRUE, !.pairs = pairs]
inner_tokens(ident, inner) == [Tokens(ident) EXCEPT !.paren = TRUE, !.inner = inner]

\* ArgsArguments::parse: the names are folded into a Vec, a repeated name is
\* an error.
RECURSIVE ArgsArguments_fold(_, _)
ArgsArguments_fold(acc, names) ==
    IF names = <<>> THEN SynOk(acc)
    ELSE IF \A i \in 1..Len(acc) : acc[i] # Head(names)
    THEN ArgsArguments_fold(Append(acc, Head(names)), Tail(names))
    ELSE SynError("Argument already declared")

ArgsArguments_parse(input) == ArgsArguments_fold(<<>>, input.names)

\* TypeValidateArgument::parse
TypeValidateArgument_parse(input) ==
    CASE input.ident = "args" ->
            Try(ArgsArguments_parse(input),
                LAMBDA args_arguments :
                    SynOk([variant |-> "Args", arguments |-> args_arguments]))
      [] input.ident = "custom" ->
            SynOk([variant |-> "Custom", function |-> input.function])
      [] OTHER -> SynError("Unknown argument. Expected \"args\" or \"custom\"")

\* Punctuated::<TypeValidateArgument, Token![,]>::parse_terminated: the
\* arguments in order, or the error of the first that does not parse.
RECURSIVE TypeValidateArgument_parse_terminated(_)
TypeValidateArgument_parse_terminated(input) ==
    IF input = <<>> THEN SynOk(<<>>)
    ELSE Try(TypeValidateArgument_parse(Head(input)),
             LAMBDA argument :
                Try(TypeValidateArgument_parse_terminated(Tail(input)),
                    LAMBDA rest : SynOk(<<argument>> \o rest)))

\* The try_fold of TypeValidateArguments::parse: an Args argument met when
\* acc holds one already is an error.
RECURSIVE TypeValidateArguments_try_fold(_, _)
TypeValidateArguments_try_fold(acc, arguments) ==
    IF arguments = <<>> THEN SynOk(acc)
    ELSE IF /\ Head(arguments).variant = "Args"
            /\ \E i \in 1..Len(acc) : acc[i].variant = "Args"
    THEN SynError("\"args\" already defined")
    ELSE TypeValidateArguments_try_fold(Append(acc, Head(arguments)), Tail(arguments))

TypeValidateArguments_parse(input) ==
    Try(TypeValidateArgument_parse_terminated(input),
        LAMBDA arguments : TypeValidateArguments_try_fold(<<>>, arguments))

\* LengthArgument / RangeArgument: name = value. The struct the parsers fill.
NoLengthArguments == [min |-> None, max |-> None, equal |-> None]
NoRangeArguments == [min |-> None, max |-> None]

\* for arg in args { .. } of LengthArguments::parse
RECURSIVE LengthArguments_loop(_, _)
LengthArguments_loop(acc, args) ==
    IF args = <<>> THEN SynOk(acc)
    ELSE IF Head(args).ident = "min"
    THEN IF ~acc.min.is_some
         THEN LengthArguments_loop([acc EXCEPT !.min = Some(Head(args))], Tail(args))
         ELSE SynError("min already declared")
    ELSE IF Head(args).ident = "max"
    THEN IF ~acc.max.is_some
         THEN LengthArguments_loop([acc EXCEPT !.max = Some(Head(args))], Tail(args))
         ELSE SynError("max already declared")
    ELSE IF Head(args).ident = "equal"
    THEN IF ~acc.equal.is_some
         THEN LengthArguments_loop([acc EXCEPT !.equal = Some(Head(args))], Tail(args))
         ELSE SynError("equal already declared")
    ELSE SynError("unknown length argument")

\* Faulty variant of LengthArguments_combination: equal is let through
\* together with min or max.
LengthArguments_combination_mixing(arguments) ==
    IF ~(arguments.min.is_some \/ arguments.max.is_some) /\ ~arguments.equal.is_some
    THEN SynError("specify min, max, or equal")
    ELSE SynOk(arguments)

\* The tests of LengthArguments::parse after its loop.
LengthArguments_combination(arguments) ==
    IF (arguments.min.is_some \/ arguments.max.is_some) /\ arguments.equal.is_some
    THEN SynError("invalid argument combination: specify either min/max or equal")
    ELSE IF ~(arguments.min.is_some \/ arguments.max.is_some) /\ ~arguments.equal.is_some
    THEN SynError("specify min, max, or equal")
    ELSE SynOk(arguments)

LengthArguments_parse(input) ==
    Try(LengthArguments_loop(NoLengthArguments, input.pairs),
        LAMBDA arguments : LengthArguments_combination(arguments))

\* for arg in args { .. } of RangeArguments::parse
RECURSIVE RangeArguments_loop(_, _)
RangeArguments_loop(acc, args) ==
    IF args = <<>> THEN SynOk(acc)
    ELSE IF Head(args).ident = "min"
    THEN IF ~acc.min.is_some
         THEN RangeArguments_loop([acc EXCEPT !.min = Some(Head(args))], Tail(args))
         ELSE SynError("min already declared")
    ELSE IF Head(args).ident = "max"
    THEN IF ~acc.max.is_some
         THEN RangeArguments_loop([acc EXCEPT !.max = Some(Head(args))], Tail(args))
         ELSE SynError("max already declared")
    ELSE SynError("unknown range argument")

\* The test of RangeArguments::parse after its loop.
RangeArguments_combination(arguments) ==
    IF ~arguments.min.is_some /\ ~arguments.max.is_some
    THEN SynError("specify min or max")
    ELSE SynOk(arguments)

RangeArguments_parse(input) ==
    Try(RangeArguments_loop(NoRangeArguments, input.pairs),
        LAMBDA arguments : RangeArguments_combination(arguments))

\* NestedArguments::parse: an optional parenthesized list of args(..); a
\* second args is an error.
RECURSIVE NestedArguments_loop(_, _)
NestedArguments_loop(args, arguments) ==
    IF arguments = <<>> THEN SynOk(IF args.is_some THEN args.value ELSE <<>>)
    ELSE IF Head(arguments).ident # "args"
    THEN SynError("Unsupported argument, expected \"args\"")
    ELSE IF args.is_some
    THEN SynError("args already defined")
    ELSE NestedArguments_loop(Some(Head(arguments).names), Tail(arguments))

NestedArguments_parse(input) ==
    IF input.paren THEN NestedArguments_loop(None, input.inner) ELSE SynOk(<<>>)

\* FieldValidateArguments::empty(): what a bare #[validate] stands for.
FieldValidateArguments_empty == <<[variant |-> "Nested", args |-> <<>>]>>

RECURSIVE FieldValidateArguments_parse(_)

\* OptParenFieldValidateArguments::parse
OptParenFieldValidateArguments_parse(input) ==
    IF input.paren
    THEN FieldValidateArguments_parse(input.inner)
    ELSE SynOk(FieldValidateArguments_empty)

\* The parsed argument of the variant the identifier selects.
Parsed(variant, arguments) == SynOk([variant |-> variant, arguments |-> arguments])

\* The identifiers FieldValidateArgument::parse knows, and their variants.
VariantOf(ident) ==
    CASE ident = "some" -> "Some"
      [] ident = "items" -> "Items"
      [] ident = "fields" -> "Fields"
      [] ident = "nested" -> "Nested"
      [] ident = "custom" -> "Custom"
      [] ident = "length" -> "Length"
      [] ident = "char_length" -> "CharLength"
      [] ident = "range" -> "Range"
      [] OTHER -> "Unknown"

\* FieldValidateArgument::parse
FieldValidateArgument_parse(input) ==
    CASE input.ident \in {"some", "items", "fields"} ->
            Try(OptParenFieldValidateArguments_parse(input),
                LAMBDA arguments : Parsed(VariantOf(input.ident), arguments))
      [] input.ident = "nested" ->
            Try(NestedArguments_parse(input),
                LAMBDA args : SynOk([variant |-> "Nested", args |-> args]))
      [] input.ident = "custom" ->
            SynOk([variant |-> "Custom", function |-> input.function])
      [] input.ident \in {"length", "char_length"} ->
            Try(LengthArguments_parse(input),
                LAMBDA arguments : Parsed(VariantOf(input.ident), arguments))
      [] input.ident = "range" ->
            Try(RangeArguments_parse(input),
                LAMBDA arguments : Parsed(VariantOf(input.ident), arguments))
      [] OTHER -> SynError("Unknown argument. Expected \"some\", \"items\", \"fields\", \"nested\", \"custom\", \"length\", \"char_length\" or \"range\"")

\* FieldValidateArguments::parse: parse_terminated and collect.
FieldValidateArguments_parse(input) ==
    IF input = <<>> THEN SynOk(<<>>)
    ELSE Try(FieldValidateArgument_parse(Head(input)),
             LAMBDA argument :
                Try(FieldValidateArguments_parse(Tail(input)),
                    LAMBDA rest : SynOk(<<argument>> \o rest)))

\* ------------------------------------------------ the derive macro: expand
\* syn::Attribute: its path, whether tokens follow the path (#[validate] has
\* none, #[validate()] has), and the arguments between the parentheses.
Attribute(path, arguments) ==
    [path |-> path, tokens_is_empty |-> FALSE, arguments |-> arguments]
BareAttribute(path) ==
    [path |-> path, tokens_is_empty |-> TRUE, arguments |-> <<>>]

\* syn::Field: ident is None in a tuple struct or tuple variant.
SynField(ident, ty, attrs) == [ident |-> ident, ty |-> ty, attrs |-> attrs]

\* syn::Fields
Named(fields_) == [variant |-> "Named", fields |-> fields_]
Unnamed(fields_) == [variant |-> "Unnamed", fields |-> fields_]
Unit == [variant |-> "Unit", fields |-> <<>>]

\* syn::Variant
Variant(ident, attrs, fields_) == [ident |-> ident, attrs |-> attrs, fields |-> fields_]

\* syn::DeriveInput, data being Data::Struct or Data::Enum.
Struct(attrs, fields_) ==
    [attrs |-> attrs, data |-> [variant |-> "Struct", fields |-> fields_, variants |-> <<>>]]
Enum(attrs, variants) ==
    [attrs |-> attrs, data |-> [variant |-> "Enum", fields |-> Unit, variants |-> variants]]

\* The macro has not run on the declaration as it stands.
NotExpanded == [variant |-> "None"]

\* A macro that ran into unreachable!() panics; the compiler reports it.
Panicked == [variant |-> "Panic"]

is_validate(attr) == attr.path = "validate"

\* The match on (min, max, equal) of the Length and CharLength arms.
length_arm(arguments) ==
    LET min == arguments.min.is_some
        max == arguments.max.is_some
        equal == arguments.equal.is_some
    IN CASE min /\ ~max /\ ~equal -> "min"
         [] ~min /\ max /\ ~equal -> "max"
         [] min /\ max /\ ~equal -> "min_max"
         [] ~min /\ ~max /\ equal -> "equal"
         [] OTHER -> "unreachable"

\* The match on (min, max) of the Range arm.
range_arm(arguments) ==
    LET min == arguments.min.is_some
        max == arguments.max.is_some
    IN CASE min /\ ~max -> "min"
         [] ~min /\ max -> "max"
         [] min /\ max -> "min_max"
         [] OTHER -> "unreachable"

\* Whether node_for_field_argument runs into unreachable!() on the
\* argument or, recursing, on one of the arguments it wraps.
RECURSIVE reaches_unreachable(_)
reaches_unreachable(argument) ==
    CASE argument.variant \in {"Some", "Items", "Fields"} ->
            \E i \in 1..Len(argument.arguments) :
                reaches_unreachable(argument.arguments[i])
      [] argument.variant \in {"Length", "CharLength"} ->
            length_arm(argument.arguments) = "unreachable"
      [] argument.variant = "Range" ->
            range_arm(argument.arguments) = "unreachable"
      [] OTHER -> FALSE

\* The inner loop of node_for_field over the arguments of one attribute:
\* nodes.push(node_for_field_argument(path, argument)).
RECURSIVE push_nodes(_, _)
push_nodes(nodes, arguments) ==
    IF arguments = <<>> THEN SynOk(nodes)
    ELSE IF reaches_unreachable(Head(arguments)) THEN Panicked
    ELSE push_nodes(Append(nodes, Head(arguments)), Tail(arguments))

\* The arguments of one validate attribute of a field: a bare #[validate]
\* stands for nested.
field_attribute_arguments(attr) ==
    IF attr.tokens_is_empty
    THEN SynOk(FieldValidateArguments_empty)
    ELSE FieldValidateArguments_parse(attr.arguments)

\* The loop of node_for_field over the attributes of the field.
RECURSIVE node_for_field_loop(_, _)
node_for_field_loop(nodes, attrs) ==
    IF attrs = <<>> THEN SynOk(nodes)
    ELSE IF ~is_validate(Head(attrs)) THEN node_for_field_loop(nodes, Tail(attrs))
    ELSE Try(field_attribute_arguments(Head(attrs)),
             LAMBDA arguments :
                Try(push_nodes(nodes, arguments),
                    LAMBDA pushed : node_for_field_loop(pushed, Tail(attrs))))

\* The end of node_for_field: None for no validator.
some_if_not_empty(nodes) == SynOk(IF nodes # <<>> THEN Some(nodes) ELSE None)

\* node_for_field: None for a field without validators, else the validators
\* of the field in declaration order, for merge_nodes to join.
node_for_field(field_) ==
    Try(node_for_field_loop(<<>>, field_.attrs), some_if_not_empty)

\* Faulty variant of push_modifier: positions are counted from one.
push_modifier_from_one(method, modifiers, field_, i, node) ==
    IF node.is_some
    THEN Append(modifiers,
                [method |-> method,
                 ident |-> IF field_.ident.is_some THEN field_.ident.value ELSE "",
                 index |-> i + 1,
                 field_index |-> i,
                 node |-> node.value])
    ELSE modifiers

\* if let Some(node) = node_for_field(..)? { modifiers.push(quote! {..}) }:
\* a modifier is the call appended to the node, .and_field(ident, node) for
\* a named field, .and_item(i, node) for the field at position i; the node
\* reads the field at position field_index (&self.0, field0, ..).
push_modifier(method, modifiers, field_, i, node) ==
    IF node.is_some
    THEN Append(modifiers,
                [method |-> method,
                 ident |-> IF field_.ident.is_some THEN field_.ident.value ELSE "",
                 index |-> i,
                 field_index |-> i,
                 node |-> node.value])
    ELSE modifiers

\* for (i, field) in fields.iter().enumerate() of modifiers_for_fields
RECURSIVE modifiers_loop(_, _, _, _)
modifiers_loop(method, modifiers, fields_, i) ==
    IF i >= Len(fields_) THEN SynOk(modifiers)
    ELSE Try(node_for_field(fields_[i + 1]),
             LAMBDA node :
                modifiers_loop(method,
                               push_modifier(method, modifiers, fields_[i + 1], i, node),
                               fields_, i + 1))

modifiers_for_fields(fields_) ==
    CASE fields_.variant = "Named" -> modifiers_loop("and_field", <<>>, fields_.fields, 0)
      [] fields_.variant = "Unnamed" -> modifiers_loop("and_item", <<>>, fields_.fields, 0)
      [] fields_.variant = "Unit" -> SynOk(<<>>)

\* match argument { Args => arg_names.extend(..), Custom => push(..) }
type_argument(acc, argument) ==
    IF argument.variant = "Args"
    THEN [acc EXCEPT !.arg_names = @ \o argument.arguments]
    ELSE [acc EXCEPT !.type_custom_validators = Append(@, argument.function)]

\* for argument in arguments { .. }
RECURSIVE type_arguments_loop(_, _)
type_arguments_loop(acc, arguments) ==
    IF arguments = <<>> THEN acc
    ELSE type_arguments_loop(type_argument(acc, Head(arguments)), Tail(arguments))

\* attr.parse_args::<TypeValidateArguments>(): syn refuses an attribute
\* without a parenthesized list.
parse_args_TypeValidateArguments(attr) ==
    IF attr.tokens_is_empty
    THEN SynError("unexpected end of input, expected parentheses")
    ELSE TypeValidateArguments_parse(attr.arguments)

\* for attr in &type_.attrs { if validate { parse_args()?; .. } }
RECURSIVE type_attrs_loop(_, _)
type_attrs_loop(acc, attrs) ==
    IF attrs = <<>> THEN SynOk(acc)
    ELSE IF ~is_validate(Head(attrs)) THEN type_attrs_loop(acc, Tail(attrs))
    ELSE Try(parse_args_TypeValidateArguments(Head(attrs)),
             LAMBDA arguments :
                type_attrs_loop(type_arguments_loop(acc, arguments), Tail(attrs)))

\* The branch of the generated match for one variant.
Branch(variant_name, variant_field_modifiers) ==
    [variant_name |-> variant_name, variant_field_modifiers |-> variant_field_modifiers]

\* for variant in &data_enum.variants { .. branches.push(..) }
RECURSIVE variants_loop(_, _)
variants_loop(branches, variants) ==
    IF variants = <<>> THEN SynOk(branches)
    ELSE IF \E i \in 1..Len(Head(variants).attrs) : is_validate(Head(variants).attrs[i])
    THEN SynError("validate attribute can not be applied to enum variants")
    ELSE Try(modifiers_for_fields(Head(variants).fields),
             LAMBDA variant_field_modifiers :
                variants_loop(Append(branches,
                                     Branch(Head(variants).ident, variant_field_modifiers)),
                              Tail(variants)))

\* The generated implementation of ValidateArgs: the names the Args tuple is
\* destructured into, the custom validators of the type, and the modifiers
\* of the struct's fields or of each variant's fields.
Implementation(data, attrs, branches, field_modifiers) ==
    SynOk([data |-> data,
           arg_names |-> attrs.arg_names,
           type_custom_validators |-> attrs.type_custom_validators,
           branches |-> branches,
           field_modifiers |-> field_modifiers])

\* match &type_.data of expand_validate, the type's attributes being read.
expand_data(type_data, attrs) ==
    IF type_data.variant = "Enum"
    THEN Try(variants_loop(<<>>, type_data.variants),
             LAMBDA branches : Implementation("Enum", attrs, branches, <<>>))
    ELSE Try(modifiers_for_fields(type_data.fields),
             LAMBDA field_modifiers : Implementation("Struct", attrs, <<>>, field_modifiers))

\* expand_validate: an error, a panic, or the generated implementation.
expand_validate(input) ==
    Try(type_attrs_loop([arg_names |-> <<>>, type_custom_validators |-> <<>>],
                        input.attrs),
        LAMBDA attrs : expand_data(input.data, attrs))

\* ---------------------------------------------- the derive macro: validate
\* The values a derived validate_args() looks at: numbers, strings (their
\* characters), vectors, options, maps (entries in iteration order), values
\* of another validated type (given by the node their validate_args()
\* returns) and the values of the type itself: its variant (a struct has one,
\* unnamed) and its fields in declaration order.
Number(number) == [ty |-> "number", number |-> number]
Str(s) == [ty |-> "String", chars |-> s]
Vec(elements) == [ty |-> "Vec", items |-> elements]
OptionOf(option) == [ty |-> "Option", option |-> option]
MapOf(entries) == [ty |-> "Map", entries |-> entries]
NestedOf(node) == [ty |-> "Nested", node |-> node]
SelfOf(variant, values) == [ty |-> "Self", variant |-> variant, fields |-> values]

\* No value has been validated.
NoInstance == [ty |-> "None"]

\* char::len_utf8, on the characters the sample strings hold.
len_utf8(c) == IF c = "é" THEN 2 ELSE 1

\* str::len counts bytes, Vec::len elements.
RECURSIVE str_len(_)
str_len(s) == IF s = <<>> THEN 0 ELSE len_utf8(Head(s)) + str_len(Tail(s))

len(path) == IF path.ty = "String" THEN str_len(path.chars) ELSE Len(path.items)

\* str::chars().count()
chars_count(path) == Len(path.chars)

\* char::is_alphanumeric, on the characters the sample strings hold.
is_alphanumeric(c) == is_ascii_alphanumeric(c) \/ c = "é"

\* The number a sample validator looks at: the value itself, or for a value
\* of the validated type its first field (value.a in the tests); a type
\* without a number there gives the validators nothing to refuse.
subject(value) ==
    IF value.ty = "number" THEN value.number
    ELSE IF value.ty = "Self" /\ value.fields # <<>> /\ value.fields[1].ty = "number"
    THEN value.fields[1].number
    ELSE 1

\* The client's validation functions, by path: a, b and c as in
\* tests/derive_tests/custom.rs, alpha_only as in the crate's example.
call_function(function, value) ==
    CASE function = "a" -> error_if(subject(value) % 3 = 0, with_code("a")).node
      [] function = "b" -> error_if(subject(value) % 4 = 0, with_code("b")).node
      [] function = "c" -> error_if(subject(value) % 5 = 0, with_code("c")).node
      [] function = "alpha_only" ->
            error_if(\E i \in 1..Len(value.chars) : ~is_alphanumeric(value.chars[i]),
                     with_code("alpha_only")).node

\* Faulty variant of merge_nodes: the nodes after the first are dropped.
merge_nodes_first_only(nodes) ==
    IF nodes = <<>> THEN ok ELSE nodes[1]

\* merge_nodes: first_node.merge(second).merge(third).. in the order given,
\* ok() for no node.
RECURSIVE merge_nodes_from(_, _)
merge_nodes_from(first_node, nodes) ==
    IF nodes = <<>> THEN first_node
    ELSE merge_nodes_from(merge(first_node, Head(nodes)), Tail(nodes))

merge_nodes(nodes) ==
    IF nodes = <<>> THEN ok ELSE merge_nodes_from(nodes[1], Tail(nodes))

\* Faulty variant of items_of: the fold stops at the first element that has
\* errors.
RECURSIVE items_of_stopping(_, _, _)
items_of_stopping(acc, index, results) ==
    IF results = <<>> \/ is_err(acc) THEN acc
    ELSE items_of_stopping(and_item(acc, index, Head(results)), index + 1, Tail(results))

\* ValidationNode::items with the closure given by its results: results[i]
\* is what f returns for the element at position i - 1.
RECURSIVE items_of(_, _, _)
items_of(acc, index, results) ==
    IF results = <<>> THEN acc
    ELSE items_of(and_item(acc, index, Head(results)), index + 1, Tail(results))

\* ValidationNode::fields with the closure given by its results, one per
\* entry: the key and what f returns for the entry.
RECURSIVE fields_of(_, _)
fields_of(acc, results) ==
    IF results = <<>> THEN acc
    ELSE fields_of(IF is_err(Head(results).node)
                   THEN and_field(acc, Head(results).key, Head(results).node)
                   ELSE acc,
                   Tail(results))

\* .and_param(name, bound) when the bound is given.
and_bound_param(e, name, bound) ==
    IF bound.is_some THEN and_param(e, name, I32(bound.value.value)) ELSE e

\* The error the generated bound checks build: code, message, the value
\* param and one param per bound given.
bound_error(code, message, value, arguments) ==
    and_bound_param(
        and_bound_param(
            and_bound_param(
                and_param(and_message(with_code(code), message), "value", value),
                "min", arguments.min),
            "max", arguments.max),
        "equal", IF "equal" \in DOMAIN arguments THEN arguments.equal ELSE None)

\* Faulty variant of out_of_bounds: the bounds themselves are refused.
out_of_bounds_exclusive(arm, value, arguments) ==
    CASE arm = "min" -> value <= arguments.min.value.value
      [] arm = "max" -> value >= arguments.max.value.value
      [] arm = "min_max" ->
            value <= arguments.min.value.value \/ value >= arguments.max.value.value
      [] arm = "equal" -> value # arguments.equal.value.value

\* The condition handed to error_if in each arm of the Length, CharLength
\* and Range matches.
out_of_bounds(arm, value, arguments) ==
    CASE arm = "min" -> value < arguments.min.value.value
      [] arm = "max" -> value > arguments.max.value.value
      [] arm = "min_max" ->
            value < arguments.min.value.value \/ value > arguments.max.value.value
      [] arm = "equal" -> value # arguments.equal.value.value

\* ValidationNode::error_if(out of bounds, |e| ..) of the three bound arms.
bound_node(arm, code, message, measured, value, arguments) ==
    error_if(out_of_bounds(arm, measured, arguments),
             bound_error(code, message, value, arguments)).node

RECURSIVE field_node(_, _)

\* node_for_field_argument, by what the generated expression evaluates to
\* when path holds the given value.
node_for_field_argument(path, argument) ==
    CASE argument.variant = "Some" ->
            IF path.option.is_some
            THEN field_node(path.option.value, argument.arguments)
            ELSE ok
      [] argument.variant = "Items" ->
            items_of(ok, 0, [i \in 1..Len(path.items) |->
                                field_node(path.items[i], argument.arguments)])
      [] argument.variant = "Fields" ->
            fields_of(ok, [i \in 1..Len(path.entries) |->
                              [key |-> path.entries[i].key,
                               node |-> field_node(path.entries[i].value,
                                                   argument.arguments)]])
      [] argument.variant = "Nested" -> path.node
      [] argument.variant = "Custom" -> call_function(argument.function, path)
      [] argument.variant = "Length" ->
            bound_node(length_arm(argument.arguments), "length", "Invalid length",
                       len(path), Usize(len(path)), argument.arguments)
      [] argument.variant = "CharLength" ->
            bound_node(length_arm(argument.arguments), "char_length",
                       "Invalid character length",
                       chars_count(path), Usize(chars_count(path)), argument.arguments)
      [] argument.variant = "Range" ->
            bound_node(range_arm(argument.arguments), "range", "Number not in range",
                       path.number, U8(path.number), argument.arguments)

\* merge_nodes(arguments.iter().map(|a| node_for_field_argument(path, a))):
\* the node of a field, an element, an entry or an option's value.
field_node(path, nodes) ==
    merge_nodes([i \in 1..Len(nodes) |-> node_for_field_argument(path, nodes[i])])

\* One of #(#field_modifiers)*: .and_field(ident, node) or .and_item(i, node).
apply_modifier(node, modifier, attached) ==
    IF modifier.method = "and_field"
    THEN and_field(node, modifier.ident, attached)
    ELSE and_item(node, modifier.index, attached)

\* #(#field_modifiers)*: the modifiers in order, each on the value of its
\* field.
RECURSIVE apply_modifiers(_, _, _)
apply_modifiers(node, modifiers, self) ==
    IF modifiers = <<>> THEN node
    ELSE apply_modifiers(
            apply_modifier(node, Head(modifiers),
                           field_node(self.fields[Head(modifiers).field_index + 1],
                                      Head(modifiers).node)),
            Tail(modifiers), self)

\* match self { Type::Variant {..} => ValidationNode::ok() modifiers, .. }
match_self(branches, self) ==
    apply_modifiers(
        ok,
        branches[CHOOSE i \in 1..Len(branches) :
                    branches[i].variant_name = self.variant].variant_field_modifiers,
        self)

\* value_node of the generated code: the custom validators of the type,
\* merged.
value_node(type_custom_validators, self) ==
    merge_nodes([i \in 1..Len(type_custom_validators) |->
                    call_function(type_custom_validators[i], self)])

\* combined_node of the enum branch, by whether custom validators and
\* branches exist.
combined_node(type_custom_validators_is_empty, branches_is_empty, value, matched) ==
    CASE ~type_custom_validators_is_empty /\ ~branches_is_empty -> merge(value, matched)
      [] ~type_custom_validators_is_empty /\ branches_is_empty -> value
      [] type_custom_validators_is_empty /\ ~branches_is_empty -> matched
      [] OTHER -> ok

\* The generated validate_args(&self, args), for the implementation
\* expand_validate returned.
validate_args(implementation, self) ==
    IF implementation.data = "Struct"
    THEN apply_modifiers(value_node(implementation.type_custom_validators, self),
                         implementation.field_modifiers, self)
    ELSE combined_node(implementation.type_custom_validators = <<>>,
                       implementation.branches = <<>>,
                       value_node(implementation.type_custom_validators, self),
                       match_self(implementation.branches, self))

\* ------------------------------------------------------------ the client
VARIABLES
    slot,             \* the node each of the client's bindings owns
    tracing,          \* whether the client records its calls (fixed by Init)
    call,             \* when tracing: the library call made last
    f_calls,          \* when tracing: arguments f was invoked with in that call
    to_string_calls,  \* when tracing: key.to_string() conversions in that call
    building,         \* the ValidationError the client is building
    param_calls,      \* the and_param calls made on it, in call order
    path,             \* the Vec<PathElement> of the traversal
    written,          \* what the last formatting call wrote
    type_,            \* the type declaration the client derives Validate for
    expanded,         \* what expand_validate returned for it, once it ran
    instance          \* the value of the type validate_args ran on last

vars == <<slot, tracing, call, f_calls, to_string_calls,
          building, param_calls, path, written, type_, expanded, instance>>

\* What a client of the derive macro works on, beside the node it gets.
derive_vars == <<type_, expanded, instance>>

\* What a client of the formatting functions works on.
fmt_vars == <<building, param_calls, path, written>>

\* What a client of the combinators works on.
node_vars == <<slot, tracing, call, f_calls, to_string_calls>>

\* Errors plus child entries of a node, over the whole tree.
RECURSIVE Weight(_)
RECURSIVE WeightOfMap(_, _)
WeightOfMap(map, keys) ==
    IF keys = {} THEN 0
    ELSE LET k == CHOOSE k \in keys : TRUE
         IN 1 + Weight(map[k]) + WeightOfMap(map, keys \ {k})
Weight(node) ==
    Len(node.errors) + WeightOfMap(node.fields, DOMAIN node.fields)
                     + WeightOfMap(node.items, DOMAIN node.items)

Fits(s) == Weight(s["x"]) + Weight(s["y"]) <= MaxWeight

SeqsUpTo(S, n) == UNION {[1..k -> S] : k \in 0..n}

Pairs == [key : Keys, value : Values]

\* Iterators over a dynamic map: entries with ascending, distinct keys.
MapIters ==
    {it \in SeqsUpTo(Pairs, MaxLen) :
        \A i, j \in 1..Len(it) : i < j => it[i].key < it[j].key}

\* Iterators of errors handed to errors() / and_errors().
ErrorIters == SeqsUpTo(Errors, MaxLen)

\* Iterators over a validated list handed to items() / and_items().
ValueIters == SeqsUpTo(Values, MaxLen)

NoCall == [name |-> "none"]

\* What a tracing client records of a call: its name, the binding that
\* receives the result, the receiver (ok for a constructor) and the arguments.
Trace(name, d, self, args, calls, conversions) ==
    IF tracing
    THEN /\ call' = [name |-> name, dst |-> d, self |-> self, args |-> args]
         /\ f_calls' = calls
         /\ to_string_calls' = conversions
    ELSE UNCHANGED <<call, f_calls, to_string_calls>>

\* The call returns node into binding d.
Return(d, node) ==
    /\ Fits([slot EXCEPT ![d] = node])
    /\ slot' = [slot EXCEPT ![d] = node]
    /\ UNCHANGED <<tracing, fmt_vars, derive_vars>>

\* The call consumes the node of binding s and returns node into binding d.
ReturnMoved(d, s, node) ==
    /\ Fits([slot EXCEPT ![d] = node, ![s] = ok])
    /\ slot' = [slot EXCEPT ![d] = node, ![s] = ok]
    /\ UNCHANGED <<tracing, fmt_vars, derive_vars>>

Init ==
    /\ slot = [d \in Slots |-> ok]
    /\ tracing = FALSE
    /\ call = NoCall
    /\ f_calls = <<>>
    /\ to_string_calls = 0
    /\ building = with_code(Codes[1])
    /\ param_calls = <<>>
    /\ path = <<>>
    /\ written = <<>>
    /\ type_ = Struct(<<>>, Unit)
    /\ expanded = NotExpanded
    /\ instance = NoInstance

Ok(d) ==
    /\ Return(d, ok)
    /\ Trace("ok", d, ok, <<>>, <<>>, 0)

Error(d, e) ==
    /\ is_ok(slot[d])
    /\ Return(d, error(e))
    /\ Trace("error", d, ok, <<e>>, <<>>, 0)

AndError(d, e) ==
    /\ Return(d, and_error(slot[d], e))
    /\ Trace("and_error", d, slot[d], <<e>>, <<>>, 0)

ErrorIf(d, condition, e) ==
    /\ is_ok(slot[d])
    /\ LET r == error_if(condition, e)
       IN /\ Return(d, r.node)
          /\ Trace("error_if", d, ok, <<condition, e>>, r.f_calls, 0)

AndErrorIf(d, condition, e) ==
    LET r == and_error_if(slot[d], condition, e)
    IN /\ Return(d, r.node)
       /\ Trace("and_error_if", d, slot[d], <<condition, e>>, r.f_calls, 0)

ErrorsOf(d, iter) ==
    /\ is_ok(slot[d])
    /\ Return(d, errors(iter))
    /\ Trace("errors", d, ok, <<iter>>, <<>>, 0)

AndErrors(d, iter) ==
    /\ Return(d, and_errors(slot[d], iter))
    /\ Trace("and_errors", d, slot[d], <<iter>>, <<>>, 0)

Field(d, name) ==
    /\ Return(d, field(name, slot[d]))
    /\ Trace("field", d, ok, <<name, slot[d]>>, <<>>, 0)

AndField(d, s, name) ==
    /\ d # s
    /\ ReturnMoved(d, s, and_field(slot[d], name, slot[s]))
    /\ Trace("and_field", d, slot[d], <<name, slot[s]>>, <<>>, 0)

Item(d, index) ==
    /\ Return(d, item(index, slot[d]))
    /\ Trace("item", d, ok, <<index, slot[d]>>, <<>>, 0)

AndItem(d, s, index) ==
    /\ d # s
    /\ ReturnMoved(d, s, and_item(slot[d], index, slot[s]))
    /\ Trace("and_item", d, slot[d], <<index, slot[s]>>, <<>>, 0)

FieldsOf(d, iterator) ==
    /\ is_ok(slot[d])
    /\ LET r == fields(iterator)
       IN /\ Return(d, r.node)
          /\ Trace("fields", d, ok, <<iterator>>, r.f_calls, r.to_string_calls)

AndFields(d, iterator) ==
    LET r == and_fields(slot[d], iterator)
    IN /\ Return(d, r.node)
       /\ Trace("and_fields", d, slot[d], <<iterator>>, r.f_calls, r.to_string_calls)

ItemsOf(d, iterator) ==
    /\ is_ok(slot[d])
    /\ LET r == items(iterator)
       IN /\ Return(d, r.node)
          /\ Trace("items", d, ok, <<iterator>>, r.f_calls, 0)

AndItems(d, iterator) ==
    LET r == and_items(slot[d], iterator)
    IN /\ Return(d, r.node)
       /\ Trace("and_items", d, slot[d], <<iterator>>, r.f_calls, 0)

Merge(d, s) ==
    /\ d # s
    /\ ReturnMoved(d, s, merge(slot[d], slot[s]))
    /\ Trace("merge", d, slot[d], <<slot[s]>>, <<>>, 0)

First(d) ==
    /\ Return(d, first(slot[d]))
    /\ Trace("first", d, slot[d], <<>>, <<>>, 0)

\* match node.result() { Ok(()) => nothing is left, Err(node) => node is kept }
Result(d) ==
    LET r == result(slot[d])
    IN /\ Return(d, IF r.variant = "Err" THEN r.value ELSE ok)
       /\ Trace("result", d, slot[d], <<>>, <<>>, 0)

Next ==
    \/ \E d \in Slots : Ok(d)
    \/ \E d \in Slots, e \in Errors : Error(d, e)
    \/ \E d \in Slots, e \in Errors : AndError(d, e)
    \/ \E d \in Slots, c \in BOOLEAN, e \in Errors : ErrorIf(d, c, e)
    \/ \E d \in Slots, c \in BOOLEAN, e \in Errors : AndErrorIf(d, c, e)
    \/ \E d \in Slots, iter \in ErrorIters : ErrorsOf(d, iter)
    \/ \E d \in Slots, iter \in ErrorIters : AndErrors(d, iter)
    \/ \E d \in Slots, n \in 1..Len(Names) : Field(d, Names[n])
    \/ \E d, s \in Slots, n \in 1..Len(Names) : AndField(d, s, Names[n])
    \/ \E d \in Slots, i \in Indices : Item(d, i)
    \/ \E d, s \in Slots, i \in Indices : AndItem(d, s, i)
    \/ \E d \in Slots, iterator \in MapIters : FieldsOf(d, iterator)
    \/ \E d \in Slots, iterator \in MapIters : AndFields(d, iterator)
    \/ \E d \in Slots, iterator \in ValueIters : ItemsOf(d, iterator)
    \/ \E d \in Slots, iterator \in ValueIters : AndItems(d, iterator)
    \/ \E d, s \in Slots : Merge(d, s)
    \/ \E d \in Slots : First(d)
    \/ \E d \in Slots : Result(d)

Spec == Init /\ [][Next]_vars

\* A client that records its calls and keeps one binding, to observe how
\* often the library invokes the closures handed to it.
InitCalls ==
    /\ slot = [d \in Slots |-> ok]
    /\ tracing = TRUE
    /\ call = NoCall
    /\ f_calls = <<>>
    /\ to_string_calls = 0
    /\ building = with_code(Codes[1])
    /\ param_calls = <<>>
    /\ path = <<>>
    /\ written = <<>>
    /\ type_ = Struct(<<>>, Unit)
    /\ expanded = NotExpanded
    /\ instance = NoInstance

NextCalls ==
    \/ Ok("x")
    \/ \E e \in Errors : AndError("x", e)
    \/ \E iter \in ErrorIters : ErrorsOf("x", iter)
    \/ \E c \in BOOLEAN, e \in Errors : ErrorIf("x", c, e)
    \/ \E c \in BOOLEAN, e \in Errors : AndErrorIf("x", c, e)
    \/ \E iterator \in MapIters : FieldsOf("x", iterator)
    \/ \E iterator \in MapIters : AndFields("x", iterator)
    \/ \E iterator \in ValueIters : ItemsOf("x", iterator)
    \/ \E iterator \in ValueIters : AndItems("x", iterator)

SpecCalls == InitCalls /\ [][NextCalls]_vars

\* ------------------------------------------ the client of the derive macro
\* Most name = value pairs the client writes into one bound argument.
MaxPairs == 3

\* Sample values by field type. The strings measure 0 to 3 in bytes and 0 to
\* 3 in characters, and differently where they hold a two-byte character.
ValuesOf(ty) ==
    CASE ty = "u8" -> {Number(n) : n \in 0..5}
      [] ty = "u16" -> {Number(n) : n \in {2, 3}}
      [] ty = "String" ->
            {Str(s) : s \in {<<>>, <<"a">>, <<"é">>, <<"a", "b">>, <<"é", "a">>,
                             <<"a", "b", "c">>}}
      [] ty = "Vec" -> {Vec([i \in 1..n |-> Str(<<"a">>)]) : n \in 0..3}

\* The sequences that hold a sample value for each field, in order.
RECURSIVE ValuesOfFields(_)
ValuesOfFields(fields_) ==
    IF fields_ = <<>> THEN {<<>>}
    ELSE {<<v>> \o rest : v \in ValuesOf(Head(fields_).ty),
                          rest \in ValuesOfFields(Tail(fields_))}

\* The sample values of the declared type: of the struct, or of each variant
\* of the enum.
Instances(declared) ==
    IF declared.data.variant = "Struct"
    THEN {SelfOf("", values) : values \in ValuesOfFields(declared.data.fields.fields)}
    ELSE UNION {{SelfOf(declared.data.variants[i].ident, values) :
                    values \in ValuesOfFields(declared.data.variants[i].fields.fields)} :
                i \in 1..Len(declared.data.variants)}

\* The client edits the declaration: the macro has to run again.
Declare(declared) ==
    /\ type_' = declared
    /\ expanded' = NotExpanded
    /\ instance' = NoInstance
    /\ slot' = [slot EXCEPT !["x"] = ok]
    /\ UNCHANGED <<tracing, call, f_calls, to_string_calls, fmt_vars>>

\* The compiler runs #[derive(Validate)] on the declaration.
Expand ==
    /\ expanded = NotExpanded
    /\ expanded' = expand_validate(type_)
    /\ UNCHANGED <<node_vars, fmt_vars, type_, instance>>

\* The program calls the generated validate_args() on a value of the type.
Validate(self) ==
    /\ expanded.variant = "Ok"
    /\ instance' = self
    /\ slot' = [slot EXCEPT !["x"] = validate_args(expanded.value, self)]
    /\ UNCHANGED <<tracing, call, f_calls, to_string_calls, fmt_vars, type_, expanded>>

\* The field names the client gives to fields of each type.
IdentOf(ty) == CASE ty = "u8" -> "age" [] ty = "String" -> "nick" [] ty = "Vec" -> "cars"

\* The bound arguments that compile on a field of the type.
BoundArgumentsOf(ty) ==
    CASE ty = "u8" -> {"range"}
      [] ty = "String" -> {"length", "char_length"}
      [] ty = "Vec" -> {"length"}

\* The names the client writes in a bound argument, step being none the
\* macro knows, and the values it gives them.
PairNames == {"min", "max", "equal", "step"}
PairValues == {1, 2}

\* struct S { #[validate(<argument>())] <ident>: <ty> }, the argument's
\* list still empty.
DeclareBounded(ty, argument) ==
    /\ argument \in BoundArgumentsOf(ty)
    /\ Declare(Struct(<<>>, Named(<<SynField(Some(IdentOf(ty)), ty,
                    <<Attribute("validate", <<pairs_tokens(argument, <<>>)>>)>>)>>)))

\* The client writes one more name = value into the argument's list.
WritePair(name, value) ==
    /\ expanded = NotExpanded
    /\ type_.data.variant = "Struct"
    /\ Len(type_.data.fields.fields) = 1
    /\ LET attrs == type_.data.fields.fields[1].attrs
       IN /\ Len(attrs) = 1
          /\ Len(attrs[1].arguments) = 1
          /\ Len(attrs[1].arguments[1].pairs) < MaxPairs
          /\ type_' = [type_ EXCEPT !.data.fields.fields[1].attrs[1].arguments[1].pairs =
                          Append(@, [ident |-> name, value |-> value])]
    /\ UNCHANGED <<node_vars, fmt_vars, expanded, instance>>

NextBounds ==
    \/ \E ty \in {"u8", "String", "Vec"}, argument \in {"range", "length", "char_length"} :
          DeclareBounded(ty, argument)
    \/ \E name \in PairNames, value \in PairValues : WritePair(name, value)
    \/ Expand
    \/ \E self \in Instances(type_) : Validate(self)

SpecBounds == Init /\ [][NextBounds]_vars

\* Most attributes the client puts on a type and its fields, and most
\* arguments it writes into them altogether.
MaxAttributes == 2
MaxArguments == 3

\* The attributes of the fields given, all in all.
RECURSIVE AttributesOf(_)
AttributesOf(fields_) ==
    IF fields_ = <<>> THEN <<>> ELSE Head(fields_).attrs \o AttributesOf(Tail(fields_))

\* The attributes the declared struct holds, on itself and on its fields.
Attributes == type_.attrs \o AttributesOf(type_.data.fields.fields)

\* The arguments written into the attributes given, all in all.
RECURSIVE ArgumentsIn(_)
ArgumentsIn(attrs) ==
    IF attrs = <<>> THEN <<>> ELSE Head(attrs).arguments \o ArgumentsIn(Tail(attrs))

\* struct S { age: u8 }, without any attribute.
DeclarePlain ==
    Declare(Struct(<<>>, Named(<<SynField(Some(IdentOf("u8")), "u8", <<>>)>>)))

\* The client puts #[validate()] or another attribute on the type, below the
\* ones it holds.
AttachTypeAttribute(attr_path) ==
    /\ expanded = NotExpanded
    /\ Len(Attributes) < MaxAttributes
    /\ type_' = [type_ EXCEPT !.attrs = Append(@, Attribute(attr_path, <<>>))]
    /\ UNCHANGED <<node_vars, fmt_vars, expanded, instance>>

\* What the client writes into an attribute of the type: args(a: u64),
\* args(b: bool), custom = a, custom = b, and nested, which belongs on fields.
TypeArgumentTokens ==
    {args_tokens(<<"a">>), args_tokens(<<"b">>), custom_tokens("a"), custom_tokens("b"),
     Tokens("nested")}

\* The client writes one more argument into the last attribute of the type.
WriteTypeArgument(tokens) ==
    /\ expanded = NotExpanded
    /\ type_.attrs # <<>>
    /\ is_validate(type_.attrs[Len(type_.attrs)])
    /\ Len(ArgumentsIn(Attributes)) < MaxArguments
    /\ type_' = [type_ EXCEPT !.attrs[Len(type_.attrs)].arguments = Append(@, tokens)]
    /\ UNCHANGED <<node_vars, fmt_vars, expanded, instance>>

NextType ==
    \/ DeclarePlain
    \/ \E attr_path \in {"validate", "doc"} : AttachTypeAttribute(attr_path)
    \/ \E tokens \in TypeArgumentTokens : WriteTypeArgument(tokens)
    \/ Expand
    \/ \E self \in Instances(type_) : Validate(self)

SpecType == Init /\ [][NextType]_vars

\* The client puts #[validate()] or another attribute on the first field of
\* the struct, below the ones the field holds.
AttachFieldAttribute(attr_path) ==
    /\ expanded = NotExpanded
    /\ type_.data.fields.fields # <<>>
    /\ Len(Attributes) < MaxAttributes
    /\ type_' = [type_ EXCEPT !.data.fields.fields[1].attrs =
                    Append(@, Attribute(attr_path, <<>>))]
    /\ UNCHANGED <<node_vars, fmt_vars, expanded, instance>>

\* The client writes one more argument into the last attribute of the field.
WriteFieldArgument(tokens) ==
    /\ expanded = NotExpanded
    /\ type_.data.fields.fields # <<>>
    /\ type_.data.fields.fields[1].attrs # <<>>
    /\ is_validate(type_.data.fields.fields[1].attrs[Len(type_.data.fields.fields[1].attrs)])
    /\ Len(ArgumentsIn(Attributes)) < MaxArguments
    /\ type_' = [type_ EXCEPT
                    !.data.fields.fields[1].attrs[Len(type_.data.fields.fields[1].attrs)].arguments =
                        Append(@, tokens)]
    /\ UNCHANGED <<node_vars, fmt_vars, expanded, instance>>

\* The validation functions of tests/derive_tests/custom.rs.
Functions == {"a", "b", "c"}

NextValidators ==
    \/ DeclarePlain
    \/ \E attr_path \in {"validate", "doc"} : AttachTypeAttribute(attr_path)
    \/ \E function \in Functions : WriteTypeArgument(custom_tokens(function))
    \/ \E attr_path \in {"validate", "doc"} : AttachFieldAttribute(attr_path)
    \/ \E function \in Functions : WriteFieldArgument(custom_tokens(function))
    \/ Expand
    \/ \E self \in Instances(type_) : Validate(self)

SpecValidators == Init /\ [][NextValidators]_vars

\* Most variants the client gives an enum, and most fields it declares in a
\* type altogether.
MaxVariants == 2
MaxFields == 3

\* The names the client gives to variants and to named fields, by position.
VariantIdents == <<"A", "B", "C", "D">>
FieldIdents == <<"x", "y", "z", "w", "v">>

\* struct S {}, struct S(), enum E {}: a type still without fields.
DeclareShape(declared) ==
    /\ declared \in {Struct(<<>>, Named(<<>>)), Struct(<<>>, Unnamed(<<>>)), Enum(<<>>, <<>>)}
    /\ Declare(declared)

\* The fields of all variants given.
RECURSIVE FieldsOfVariants(_)
FieldsOfVariants(variants) ==
    IF variants = <<>> THEN <<>>
    ELSE Head(variants).fields.fields \o FieldsOfVariants(Tail(variants))

\* The fields the declaration holds, in the struct or in the variants.
DeclaredFields == type_.data.fields.fields \o FieldsOfVariants(type_.data.variants)

\* The client adds a variant to the enum: unit, tuple or struct-like, still
\* without fields.
AddVariant(fields_) ==
    /\ expanded = NotExpanded
    /\ type_.data.variant = "Enum"
    /\ Len(type_.data.variants) < MaxVariants
    /\ fields_ \in {Unit, Named(<<>>), Unnamed(<<>>)}
    /\ type_' = [type_ EXCEPT !.data.variants =
                    Append(@, Variant(VariantIdents[Len(@) + 1], <<>>, fields_))]
    /\ UNCHANGED <<node_vars, fmt_vars, expanded, instance>>

\* The field that comes after the fields given: named by its position where
\* the fields are named.
NextField(fields_, attrs) ==
    [fields_ EXCEPT !.fields =
        Append(@, SynField(IF fields_.variant = "Named"
                           THEN Some(FieldIdents[Len(@) + 1])
                           ELSE None,
                           "u16", attrs))]

\* What the client puts on a field: nothing, a validator, an attribute of
\* another macro.
FieldAttributes ==
    {<<>>, <<Attribute("validate", <<custom_tokens("a")>>)>>, <<Attribute("doc", <<>>)>>}

\* The client adds a field to the struct, or to the last variant of the enum.
AddField(attrs) ==
    /\ expanded = NotExpanded
    /\ Len(DeclaredFields) < MaxFields
    /\ IF type_.data.variant = "Struct"
       THEN /\ type_.data.fields.variant # "Unit"
            /\ type_' = [type_ EXCEPT !.data.fields = NextField(@, attrs)]
       ELSE /\ type_.data.variants # <<>>
            /\ type_.data.variants[Len(type_.data.variants)].fields.variant # "Unit"
            /\ type_' = [type_ EXCEPT !.data.variants[Len(type_.data.variants)].fields =
                            NextField(@, attrs)]
    /\ UNCHANGED <<node_vars, fmt_vars, expanded, instance>>

NextShape ==
    \/ \E declared \in {Struct(<<>>, Named(<<>>)), Struct(<<>>, Unnamed(<<>>)), Enum(<<>>, <<>>)} :
          DeclareShape(declared)
    \/ \E fields_ \in {Unit, Named(<<>>), Unnamed(<<>>)} : AddVariant(fields_)
    \/ \E attrs \in FieldAttributes : AddField(attrs)
    \/ Expand
    \/ \E self \in Instances(type_) : Validate(self)

SpecShape == Init /\ [][NextShape]_vars

\* The type of the crate's example: nick with custom = alpha_only and
\* char_length(max = 30), age with range(min = 15, max = 100), cars with
\* length(max = 3) and items(char_length(max = 50)).
User ==
    Struct(<<>>, Named(<<
        SynField(Some("nick"), "String",
                 <<Attribute("validate",
                             <<custom_tokens("alpha_only"),
                               pairs_tokens("char_length",
                                            <<[ident |-> "max", value |-> 30]>>)>>)>>),
        SynField(Some("age"), "u8",
                 <<Attribute("validate",
                             <<pairs_tokens("range",
                                            <<[ident |-> "min", value |-> 15],
                                              [ident |-> "max", value |-> 100]>>)>>)>>),
        SynField(Some("cars"), "Vec",
                 <<Attribute("validate",
                             <<pairs_tokens("length", <<[ident |-> "max", value |-> 3]>>),
                               inner_tokens("items",
                                            <<pairs_tokens("char_length",
                                                           <<[ident |-> "max",
                                                              value |-> 50]>>)>>)>>)>>)>>))

\* str::repeat
RECURSIVE repeat(_, _)
repeat(s, n) == IF n = 0 THEN <<>> ELSE s \o repeat(s, n - 1)

\* The strings of the example.
TomChars == <<"*", "*", "t", "o", "m", "1", "9", "8", "0", "*", "*">>
FirstChars == <<"f", "i", "r", "s", "t">>
SecondChars == <<"s", "e", "c", "o", "n", "d">>
ThirdChars == <<"t", "h", "i", "r", "d">>
FourthChars == <<"f", "o", "u", "r", "t", "h">>

\* let user = User { .. } of the example.
ExampleUser ==
    SelfOf("", <<Str(TomChars), Number(200),
                 Vec(<<Str(FirstChars), Str(SecondChars), Str(repeat(ThirdChars, 11)), Str(FourthChars)>>)>>)

\* The users the client validates: the example's, and others whose fields
\* are inside, on and outside the bounds, one at a time and several at once.
Users ==
    {SelfOf("", <<Str(nick), Number(age), Vec(cars)>>) :
        nick \in {TomChars, <<"t", "o", "m">>, <<"t", "o", "m", "é">>, repeat(<<"a">>, 30),
                  repeat(<<"*">>, 31)},
        age \in {0, 14, 15, 100, 101, 200},
        cars \in {<<>>,
                  <<Str(FirstChars), Str(SecondChars), Str(repeat(ThirdChars, 10))>>,
                  <<Str(FirstChars), Str(SecondChars), Str(repeat(ThirdChars, 11)), Str(FourthChars)>>,
                  <<Str(repeat(ThirdChars, 11)), Str(SecondChars), Str(repeat(FourthChars, 9))>>,
                  <<Str(repeat(ThirdChars, 11)), Str(repeat(ThirdChars, 11)),
                    Str(repeat(ThirdChars, 11)), Str(repeat(ThirdChars, 11))>>}}

\* #[derive(Validate)] struct User { .. }
DeclareUser == Declare(User)

\* user.validate()
ValidateUser(self) ==
    /\ type_ = User
    /\ Validate(self)

NextUser ==
    \/ DeclareUser
    \/ Expand
    \/ \E self \in Users : ValidateUser(self)

SpecUser == Init /\ [][NextUser]_vars

\* ------------------------------------------- the client of the formatters
\* Characters of the field names handed to fmt_path: letters, a digit, the
\* underscore, the quote, the backslash, a punctuation mark and a letter
\* outside ASCII.
NameChars == {"a", "Z", "7", "_", "\"", "\\", "~", "é"}

\* Indices handed to fmt_path.
PathIndices == {0, 9, 10}

\* Steps plus name characters of a path.
RECURSIVE PathWeight(_)
PathWeight(p) ==
    IF p = <<>> THEN 0
    ELSE (IF Head(p).kind = "Name" THEN 1 + Len(Head(p).name) ELSE 1)
            + PathWeight(Tail(p))

\* The path elements of at most the given weight.
PathElements(weight) ==
    IF weight < 1 THEN {}
    ELSE {Name(n) : n \in SeqsUpTo(NameChars, weight - 1)}
            \cup {Index(i) : i \in PathIndices}

\* path.push(element), and the path written as serialize_elements and
\* display_fmt write it for the node reached.
PathPush(element) ==
    /\ path' = Append(path, element)
    /\ written' = fmt_path(path', <<>>)
    /\ UNCHANGED <<node_vars, building, param_calls, derive_vars>>

\* path.pop(), back at the parent node.
PathPop ==
    /\ path # <<>>
    /\ path' = SubSeq(path, 1, Len(path) - 1)
    /\ written' = fmt_path(path', <<>>)
    /\ UNCHANGED <<node_vars, building, param_calls, derive_vars>>

NextPath ==
    \/ \E element \in PathElements(MaxPathWeight - PathWeight(path)) : PathPush(element)
    \/ PathPop

SpecPath == Init /\ [][NextPath]_vars

\* The client builds an error with the builder calls and formats it.
WithCode(code) ==
    /\ building' = with_code(code)
    /\ param_calls' = <<>>
    /\ written' = fmt_error(building', <<>>)
    /\ UNCHANGED <<node_vars, path, derive_vars>>

AndMessage(message) ==
    /\ building' = and_message(building, message)
    /\ written' = fmt_error(building', <<>>)
    /\ UNCHANGED <<node_vars, path, param_calls, derive_vars>>

AndParam(key, value) ==
    /\ Len(param_calls) < MaxParamCalls
    /\ building' = and_param(building, key, value)
    /\ param_calls' = Append(param_calls, <<key, value>>)
    /\ written' = fmt_error(building', <<>>)
    /\ UNCHANGED <<node_vars, path, derive_vars>>

NextError ==
    \/ \E i \in 1..Len(Codes) : WithCode(Codes[i])
    \/ \E message \in Messages : AndMessage(message)
    \/ \E k \in 1..Len(ParamNames), value \in ParamValues : AndParam(ParamNames[k], value)

SpecError == Init /\ [][NextError]_vars

\* ------------------------------------------------------------- properties
\* Direct errors of a node, over the whole tree.
RECURSIVE ErrorCount(_)
RECURSIVE ErrorCountOfMap(_, _)
ErrorCountOfMap(map, keys) ==
    IF keys = {} THEN 0
    ELSE LET k == CHOOSE k \in keys : TRUE
         IN ErrorCount(map[k]) + ErrorCountOfMap(map, keys \ {k})
ErrorCount(node) ==
    Len(node.errors) + ErrorCountOfMap(node.fields, DOMAIN node.fields)
                     + ErrorCountOfMap(node.items, DOMAIN node.items)

\* Every key of the fields and items maps, at every depth, maps to a child
\* that holds an error, a field entry or an item entry of its own.
RECURSIVE NoEmptyChild(_)
NoEmptyChild(node) ==
    /\ \A k \in DOMAIN node.fields :
          /\ ~(/\ node.fields[k].errors = <<>>
               /\ DOMAIN node.fields[k].fields = {}
               /\ DOMAIN node.fields[k].items = {})
          /\ NoEmptyChild(node.fields[k])
    /\ \A k \in DOMAIN node.items :
          /\ ~(/\ node.items[k].errors = <<>>
               /\ DOMAIN node.items[k].fields = {}
               /\ DOMAIN node.items[k].items = {})
          /\ NoEmptyChild(node.items[k])

HasGrandchild(node) ==
    \/ \E k \in DOMAIN node.fields :
          DOMAIN node.fields[k].fields \cup DOMAIN node.fields[k].items # {}
    \/ \E k \in DOMAIN node.items :
          DOMAIN node.items[k].fields \cup DOMAIN node.items[k].items # {}

\* C1: whatever calls the client has made, every key stored in a fields or
\* items map of a node it owns, at any depth, maps to a child that is not ok.
C1_NoEmptyChildStored == \A d \in Slots : NoEmptyChild(slot[d])

\* C1 witness: a node holding an entry that holds an entry of its own has
\* been built, beside a second node that is not ok.
C1_Witness ==
    \E d, s \in Slots :
        /\ d # s
        /\ HasGrandchild(slot[d])
        /\ slot[s].errors # <<>>

\* C2: is_ok() is true exactly of the trees that hold no direct error at any
\* depth, and is_err() is its negation.
C2_IsOkIffNoError ==
    \A d \in Slots :
        /\ is_ok(slot[d]) <=> ErrorCount(slot[d]) = 0
        /\ is_err(slot[d]) <=> ~is_ok(slot[d])

\* C2 witness: a node with no direct error of its own whose only errors sit
\* two levels down; is_ok() is false of it.
C2_Witness ==
    \E d \in Slots :
        /\ slot[d].errors = <<>>
        /\ HasGrandchild(slot[d])
        /\ \A k \in DOMAIN slot[d].fields : slot[d].fields[k].errors = <<>>
        /\ \A k \in DOMAIN slot[d].items : slot[d].items[k].errors = <<>>
        /\ ~is_ok(slot[d])
        /\ ErrorCount(slot[d]) > 0

\* r is the merge of a and b as the specification words it: a's errors then
\* b's, the union of the keys, a shared key mapped to the merge of the two
\* children (a's child as receiver), a one-sided key to that side's child.
RECURSIVE IsMergeOf(_, _, _)
IsMergeOfMaps(r, a, b) ==
    /\ DOMAIN r = DOMAIN a \cup DOMAIN b
    /\ \A k \in DOMAIN r :
          IF k \in DOMAIN a /\ k \in DOMAIN b THEN IsMergeOf(r[k], a[k], b[k])
          ELSE IF k \in DOMAIN a THEN r[k] = a[k]
          ELSE r[k] = b[k]
IsMergeOf(r, a, b) ==
    /\ r.errors = a.errors \o b.errors
    /\ IsMergeOfMaps(r.fields, a.fields, b.fields)
    /\ IsMergeOfMaps(r.items, a.items, b.items)

SharesKey(a, b) ==
    \/ DOMAIN a.fields \cap DOMAIN b.fields # {}
    \/ DOMAIN a.items \cap DOMAIN b.items # {}

\* C3: for the nodes the client owns, merge(self, other) is self's errors
\* followed by other's, over the union of the keys, shared keys merged
\* recursively and one-sided keys taken as they are.
C3_MergeIsUnion ==
    \A d, s \in Slots : d # s => IsMergeOf(merge(slot[d], slot[s]), slot[d], slot[s])

\* C3 witness: the client owns two nodes that share a key, so that the merge
\* recurses into an occupied entry and joins two error lists there.
C3_Witness ==
    \E d, s \in Slots :
        /\ d # s
        /\ SharesKey(slot[d], slot[s])
        /\ merge(slot[d], slot[s]) # slot[d]
        /\ ErrorCount(merge(slot[d], slot[s])) >= 2

\* C4: ok() is a left and a right identity of merge on every node the
\* client owns.
C4_OkIsIdentity ==
    \A d \in Slots :
        /\ merge(ok, slot[d]) = slot[d]
        /\ merge(slot[d], ok) = slot[d]

\* C4 witness: a node with a direct error and an entry that holds an entry
\* of its own, to merge with ok().
C4_Witness ==
    \E d \in Slots :
        /\ slot[d].errors # <<>>
        /\ HasGrandchild(slot[d])
        /\ merge(ok, slot[d]) = slot[d]

\* Third operands for associativity: the nodes the constructors error, field
\* and item build around one error, up to two levels deep.
Leaves == {error(e) : e \in Errors}
Wrapped(S) ==
    {field(Names[n], c) : n \in 1..Len(Names), c \in S}
        \cup {item(i, c) : i \in Indices, c \in S}
Thirds == {ok} \cup Leaves \cup Wrapped(Leaves) \cup Wrapped(Wrapped(Leaves))

\* C5: merge is associative: for the two nodes the client owns and any third
\* node c, (a.merge(b)).merge(c) equals a.merge(b.merge(c)), node by node.
C5_MergeAssociative ==
    \A d, s \in Slots : d # s =>
        \A c \in Thirds :
            merge(merge(slot[d], slot[s]), c) = merge(slot[d], merge(slot[s], c))

\* C5 witness: the two nodes the client owns and a third operand all hold
\* the same key, so that three error lists meet in one entry.
C5_Witness ==
    \E c \in Thirds :
        /\ \/ DOMAIN slot["x"].fields \cap DOMAIN slot["y"].fields \cap DOMAIN c.fields # {}
           \/ DOMAIN slot["x"].items \cap DOMAIN slot["y"].items \cap DOMAIN c.items # {}
        /\ ErrorCount(merge(merge(slot["x"], slot["y"]), c)) >= 3

\* C6: and_field / and_item with a non-ok child, on a receiver that already
\* holds an entry for the key, merges the child into the entry: the entry's
\* direct errors are the stored ones followed by the incoming ones, nested
\* entries are merged recursively, and nothing else of the receiver changes.
C6_AttachMergesIntoEntry ==
    \A d, s \in Slots : (d # s /\ ~is_ok(slot[s])) =>
        /\ \A n \in DOMAIN slot[d].fields :
              LET r == and_field(slot[d], n, slot[s])
              IN /\ r.fields[n].errors = slot[d].fields[n].errors \o slot[s].errors
                 /\ IsMergeOf(r.fields[n], slot[d].fields[n], slot[s])
                 /\ r = [slot[d] EXCEPT !.fields[n] = r.fields[n]]
        /\ \A i \in DOMAIN slot[d].items :
              LET r == and_item(slot[d], i, slot[s])
              IN /\ r.items[i].errors = slot[d].items[i].errors \o slot[s].errors
                 /\ IsMergeOf(r.items[i], slot[d].items[i], slot[s])
                 /\ r = [slot[d] EXCEPT !.items[i] = r.items[i]]

\* C6 witness: the receiver holds an item entry with a direct error and the
\* child to attach under the same index holds a direct error too.
C6_Witness ==
    \E d, s \in Slots :
        /\ d # s
        /\ slot[s].errors # <<>>
        /\ \E i \in DOMAIN slot[d].items :
              /\ slot[d].items[i].errors # <<>>
              /\ Len(and_item(slot[d], i, slot[s]).items[i].errors) >= 2

\* C7: with nothing to add the conditional combinators return the receiver
\* as it is: and_field(name, ok()), and_item(index, ok()) and
\* and_error_if(false, f) leave every node the client owns unchanged.
C7_NothingToAddIsNoOp ==
    \A d \in Slots :
        /\ \A n \in 1..Len(Names) : and_field(slot[d], Names[n], ok) = slot[d]
        /\ \A i \in Indices : and_item(slot[d], i, ok) = slot[d]
        /\ \A e \in Errors : and_error_if(slot[d], FALSE, e).node = slot[d]

\* C7 witness: a receiver with a direct error and a field entry, with a free
\* field name and free item indices beside them.
C7_Witness ==
    \E d \in Slots :
        /\ slot[d].errors # <<>>
        /\ \E n \in 1..Len(Names) : Names[n] \in DOMAIN slot[d].fields
        /\ \E n \in 1..Len(Names) : Names[n] \notin DOMAIN slot[d].fields
        /\ \E i \in Indices : i \notin DOMAIN slot[d].items

\* C8: error_if / and_error_if invoke f not at all when the condition is
\* false and exactly once when it is true, and the error f returns is the one
\* appended to the receiver's direct errors.
C8_ClosureCalledAtMostOnce ==
    call.name \in {"error_if", "and_error_if"} =>
        LET condition == call.args[1]
            f == call.args[2]
        IN /\ Len(f_calls) = (IF condition THEN 1 ELSE 0)
           /\ slot[call.dst].errors =
                 (IF condition THEN Append(call.self.errors, f) ELSE call.self.errors)

\* C8 witness: and_error_if(true, f) has run on a receiver that held an
\* error already.
C8_Witness ==
    /\ call.name = "and_error_if"
    /\ call.args[1] = TRUE
    /\ call.self.errors # <<>>
    /\ Len(f_calls) = 1

\* Positions of the iterator whose value the closure rejects.
Rejected(iterator) ==
    {i \in 1..Len(iterator) : ~is_ok(validate_value(i, iterator[i]))}

\* C9: fields / and_fields convert a key to its string only for the pairs
\* whose validation result is not ok: there are as many conversions as non-ok
\* results, and none when every value is valid.
C9_KeyConvertedOnlyOnError ==
    call.name \in {"fields", "and_fields"} =>
        LET iterator == call.args[1]
            bad == {i \in 1..Len(iterator) :
                        ~is_ok(validate_value(iterator[i].key, iterator[i].value))}
        IN /\ to_string_calls = Cardinality(bad)
           /\ {to_string(iterator[i].key) : i \in bad} \subseteq DOMAIN slot[call.dst].fields

\* C9 witness: and_fields has run over a valid and an invalid pair.
C9_Witness ==
    /\ call.name = "and_fields"
    /\ Len(call.args[1]) = 2
    /\ call.args[1][1].value = 0
    /\ call.args[1][2].value > 0
    /\ to_string_calls = 1

\* C10: items / and_items call f once per element, in iteration order, with
\* the element's 0-based position, and attach a non-ok result for position i
\* under item key i, merging it into an entry the receiver held there.
C10_ItemsKeyedByPosition ==
    call.name \in {"items", "and_items"} =>
        LET iterator == call.args[1]
            bad == {i - 1 : i \in Rejected(iterator)}
            outcome(k) == validate_value(k, iterator[k + 1])
            held == call.self.items
            now == slot[call.dst].items
        IN /\ f_calls = [i \in 1..Len(iterator) |-> i - 1]
           /\ DOMAIN now = DOMAIN held \cup bad
           /\ \A k \in DOMAIN now :
                 IF k \notin bad THEN now[k] = held[k]
                 ELSE IF k \in DOMAIN held THEN IsMergeOf(now[k], held[k], outcome(k))
                 ELSE now[k] = outcome(k)

\* C10 witness: and_items has run over a valid element followed by an invalid
\* one, on a receiver that held an entry for item 1.
C10_Witness ==
    /\ call.name = "and_items"
    /\ call.args[1] = <<0, 1>>
    /\ 1 \in DOMAIN call.self.items
    /\ DOMAIN slot[call.dst].items = {1}

\* The places a child can be attached at: a field name or an item index.
AttachKeys ==
    {[kind |-> "field", name |-> Names[n]] : n \in 1..Len(Names)}
        \cup {[kind |-> "item", index |-> i] : i \in Indices}

\* parent.and_field(name, child) or parent.and_item(index, child)
Attach(parent, at, child) ==
    IF at.kind = "field" THEN and_field(parent, at.name, child)
    ELSE and_item(parent, at.index, child)

\* The attachments of the sequence atts made one after the other.
RECURSIVE AttachAll(_, _)
AttachAll(parent, atts) ==
    IF atts = <<>> THEN parent
    ELSE AttachAll(Attach(parent, Head(atts).at, Head(atts).child), Tail(atts))

\* The orders in which three attachments can be made.
Orders3 == {<<1, 2, 3>>, <<1, 3, 2>>, <<2, 1, 3>>, <<2, 3, 1>>, <<3, 1, 2>>, <<3, 2, 1>>}

\* C11: attaching children under pairwise distinct keys gives the same tree,
\* and so the same rendering, in every order of the and_field / and_item
\* calls: for a parent and a child the client owns and two more children
\* holding one error each, all six orders of the three attachments agree.
C11_AttachOrderIrrelevant ==
    \A d, s \in Slots : (d # s /\ ~is_ok(slot[s])) =>
        \A k1 \in AttachKeys :
            \A pair \in {ks \in SUBSET (AttachKeys \ {k1}) : Cardinality(ks) = 2} :
                LET k2 == CHOOSE k \in pair : TRUE
                    k3 == CHOOSE k \in pair : k # k2
                    atts == <<[at |-> k1, child |-> slot[s]],
                              [at |-> k2, child |-> error(with_code(Codes[1]))],
                              [at |-> k3, child |-> error(with_code(Codes[2]))]>>
                    base == AttachAll(slot[d], atts)
                IN \A o \in Orders3 :
                      AttachAll(slot[d], <<atts[o[1]], atts[o[2]], atts[o[3]]>>) = base

\* C11 witness: the parent already holds an entry, so that one attachment
\* merges into it while the others insert theirs, and the child the client
\* owns holds an entry of its own.
C11_Witness ==
    \E d, s \in Slots :
        /\ d # s
        /\ DOMAIN slot[s].fields \cup DOMAIN slot[s].items # {}
        /\ DOMAIN slot[d].fields \cup DOMAIN slot[d].items # {}
        /\ \E k \in AttachKeys : Attach(slot[d], k, slot[s]) # slot[d]

\* Two trees with the same keys at every path and, at every node, the same
\* direct errors counted with multiplicity.
RECURSIVE SameUpToErrorOrder(_, _)
SameErrorBag(es1, es2) ==
    /\ Len(es1) = Len(es2)
    /\ \A e \in {es1[i] : i \in 1..Len(es1)} \cup {es2[i] : i \in 1..Len(es2)} :
          Cardinality({i \in 1..Len(es1) : es1[i] = e})
              = Cardinality({i \in 1..Len(es2) : es2[i] = e})
SameUpToErrorOrder(r1, r2) ==
    /\ SameErrorBag(r1.errors, r2.errors)
    /\ DOMAIN r1.fields = DOMAIN r2.fields
    /\ DOMAIN r1.items = DOMAIN r2.items
    /\ \A k \in DOMAIN r1.fields : SameUpToErrorOrder(r1.fields[k], r2.fields[k])
    /\ \A k \in DOMAIN r1.items : SameUpToErrorOrder(r1.items[k], r2.items[k])

\* C12: a.merge(b) and b.merge(a) have the same keys at every path and the
\* same direct errors at every node up to their order, and in each the
\* receiver's direct errors come first.
C12_MergeCommutesPerKey ==
    \A d, s \in Slots : d # s =>
        LET ab == merge(slot[d], slot[s])
            ba == merge(slot[s], slot[d])
        IN /\ SameUpToErrorOrder(ab, ba)
           /\ ab.errors = slot[d].errors \o slot[s].errors
           /\ ba.errors = slot[s].errors \o slot[d].errors

\* C12 witness: the two nodes share a key under which they hold different
\* errors, so that the two merges differ, in the order of the errors only.
C12_Witness ==
    \E d, s \in Slots :
        /\ d # s
        /\ SharesKey(slot[d], slot[s])
        /\ merge(slot[d], slot[s]) # merge(slot[s], slot[d])

\* The direct errors of a tree, each named by the steps that lead to its
\* node and its position among the node's errors.
RECURSIVE Entries(_, _)
Entries(node, steps) ==
    {[steps |-> steps, nth |-> i] : i \in 1..Len(node.errors)}
        \cup UNION {Entries(node.fields[n], Append(steps, [kind |-> "field", name |-> n])) :
                        n \in DOMAIN node.fields}
        \cup UNION {Entries(node.items[i], Append(steps, [kind |-> "item", index |-> i])) :
                        i \in DOMAIN node.items}

RECURSIVE NodeAt(_, _)
NodeAt(node, steps) ==
    IF steps = <<>> THEN node
    ELSE IF Head(steps).kind = "field"
         THEN NodeAt(node.fields[Head(steps).name], Tail(steps))
         ELSE NodeAt(node.items[Head(steps).index], Tail(steps))

\* Names lists the field names in ascending order.
NameRank(name) == CHOOSE n \in 1..Len(Names) : Names[n] = name

\* Sibling order: fields before items, names and indices ascending.
StepBefore(a, b) ==
    \/ a.kind = "field" /\ b.kind = "item"
    \/ a.kind = "field" /\ b.kind = "field" /\ NameRank(a.name) < NameRank(b.name)
    \/ a.kind = "item" /\ b.kind = "item" /\ a.index < b.index

\* Depth-first order: a node before its subtrees, siblings in sibling order.
RECURSIVE StepsBefore(_, _)
StepsBefore(p, q) ==
    IF p = <<>> THEN q # <<>>
    ELSE IF q = <<>> THEN FALSE
    ELSE IF Head(p) = Head(q) THEN StepsBefore(Tail(p), Tail(q))
    ELSE StepBefore(Head(p), Head(q))

EntryBefore(a, b) ==
    \/ StepsBefore(a.steps, b.steps)
    \/ a.steps = b.steps /\ a.nth < b.nth

RECURSIVE InOrder(_)
InOrder(S) ==
    IF S = {} THEN <<>>
    ELSE LET m == CHOOSE a \in S : \A b \in S \ {a} : EntryBefore(a, b)
         IN <<m>> \o InOrder(S \ {m})

PathOf(steps) ==
    [i \in 1..Len(steps) |->
        IF steps[i].kind = "field" THEN Name(chars(steps[i].name))
        ELSE Index(steps[i].index)]

\* The line of one direct error: its path, ": " and its description.
LineOf(node, entry) ==
    fmt_path(PathOf(entry.steps), <<>>) \o <<":", " ">>
        \o fmt_error(NodeAt(node, entry.steps).errors[entry.nth], <<>>)

RECURSIVE JoinLines(_)
JoinLines(lines) ==
    IF lines = <<>> THEN <<>>
    ELSE IF Len(lines) = 1 THEN lines[1]
    ELSE lines[1] \o <<"\n">> \o JoinLines(Tail(lines))

\* C13: the text of a tree is the lines of its direct errors in depth-first
\* order: a node's errors in stored order, then its field subtrees by
\* ascending name, then its item subtrees by ascending index; a function of
\* the tree, not of the order in which the entries were inserted.
C13_RenderOrderFixed ==
    \A d \in Slots :
        LET ordered == InOrder(Entries(slot[d], <<>>))
        IN display(slot[d])
              = JoinLines([k \in 1..Len(ordered) |-> LineOf(slot[d], ordered[k])])

\* C13 witness: a tree with two entries to put in order: two fields, or a
\* field and an item.
C13_Witness ==
    \E d \in Slots :
        /\ Cardinality(DOMAIN slot[d].fields) + Cardinality(DOMAIN slot[d].items) >= 2
        /\ DOMAIN slot[d].fields # {}

Newlines(text) == {i \in 1..Len(text) : text[i] = "\n"}

\* No field name and no error description of the tree holds a newline.
RECURSIVE NewlineFree(_)
NewlineFree(node) ==
    /\ \A i \in 1..Len(node.errors) : Newlines(fmt_error(node.errors[i], <<>>)) = {}
    /\ \A n \in DOMAIN node.fields :
          Newlines(chars(n)) = {} /\ NewlineFree(node.fields[n])
    /\ \A i \in DOMAIN node.items : NewlineFree(node.items[i])

\* The text has one line per direct error of the tree: none for an ok tree,
\* else one newline fewer than errors, none of them first, last or doubled.
OneLinePerError(node) ==
    LET text == display(node)
        count == ErrorCount(node)
    IN IF count = 0 THEN text = <<>>
       ELSE /\ Cardinality(Newlines(text)) = count - 1
            /\ 1 \notin Newlines(text)
            /\ Len(text) \notin Newlines(text)
            /\ \A i \in Newlines(text) : i + 1 \notin Newlines(text)

\* C14 as stated: the text of every tree has exactly one line per direct
\* error, lines separated by single newlines, no leading or trailing newline,
\* and is empty for an ok tree.
C14_OneLinePerErrorAlways == \A d \in Slots : OneLinePerError(slot[d])

\* C14 as amended: the same, for the trees in which no field name and no
\* error description (code, message, parameter names, displayed parameter
\* values) holds a newline character.
C14_OneLinePerError ==
    \A d \in Slots : NewlineFree(slot[d]) => OneLinePerError(slot[d])

\* C14 witness: a tree free of newlines with direct errors at two depths.
C14_Witness ==
    \E d \in Slots :
        /\ NewlineFree(slot[d])
        /\ Len(slot[d].errors) >= 2
        /\ ErrorCount(slot[d]) > Len(slot[d].errors)

\* The lines of a text: its pieces between newlines; an empty text has none.
RECURSIVE SplitLines(_)
SplitLines(text) ==
    IF Newlines(text) = {} THEN <<text>>
    ELSE LET i == CHOOSE j \in Newlines(text) : \A k \in Newlines(text) : j <= k
         IN <<SubSeq(text, 1, i - 1)>> \o SplitLines(SubSeq(text, i + 1, Len(text)))

TextLines(text) == IF text = <<>> THEN <<>> ELSE SplitLines(text)

\* What the pair (path, description) reads as in the text rendering.
PairText(pair) == pair[1] \o <<":", " ">> \o pair[2]

\* The k-th pair of the serialization is the k-th line of the text.
PairsAreLines(node) ==
    LET pairs == serialize(node)
        lines == TextLines(display(node))
    IN /\ Len(lines) = Len(pairs)
       /\ \A k \in 1..Len(pairs) : PairText(pairs[k]) = lines[k]

\* C18 as stated: for every tree the serialization has one (path,
\* description) pair per direct error and path + ": " + description of the
\* k-th pair is the k-th line of the text rendering.
C18_PairsAreLinesAlways ==
    \A d \in Slots :
        /\ Len(serialize(slot[d])) = ErrorCount(slot[d])
        /\ PairsAreLines(slot[d])

\* C18 as amended: for every tree the serialization has one pair per direct
\* error and the text rendering is the strings path + ": " + description of
\* the pairs, in order, joined by single newlines; when no field name and no
\* error description holds a newline, the k-th of them is the k-th line.
C18_PairsAreLines ==
    \A d \in Slots :
        LET pairs == serialize(slot[d])
        IN /\ Len(pairs) = ErrorCount(slot[d])
           /\ display(slot[d]) = JoinLines([k \in 1..Len(pairs) |-> PairText(pairs[k])])
           /\ NewlineFree(slot[d]) => PairsAreLines(slot[d])

\* C18 witness: a tree free of newlines with a field entry and an item
\* entry, serialized as two pairs or more.
C18_Witness ==
    \E d \in Slots :
        /\ NewlineFree(slot[d])
        /\ DOMAIN slot[d].fields # {}
        /\ DOMAIN slot[d].items # {}
        /\ Len(serialize(slot[d])) >= 2

\* C19: first() keeps one error by a fixed rule: the first direct error if
\* there is one, and then no field and no item; else the first() of the child
\* under the lowest field name, alone; else the first() of the child under
\* the lowest item index, alone; else ok().
C19_FirstKeepsOne ==
    \A d \in Slots :
        LET node == slot[d]
            kept == first(node)
        IN IF node.errors # <<>>
           THEN kept = [errors |-> <<node.errors[1]>>, fields |-> <<>>, items |-> <<>>]
           ELSE IF DOMAIN node.fields # {}
           THEN LET low == CHOOSE n \in DOMAIN node.fields :
                               \A m \in DOMAIN node.fields : NameRank(n) <= NameRank(m)
                IN /\ kept.errors = <<>>
                   /\ DOMAIN kept.fields = {low}
                   /\ kept.fields[low] = first(node.fields[low])
                   /\ DOMAIN kept.items = {}
           ELSE IF DOMAIN node.items # {}
           THEN LET low == CHOOSE i \in DOMAIN node.items :
                               \A j \in DOMAIN node.items : i <= j
                IN /\ kept.errors = <<>>
                   /\ DOMAIN kept.fields = {}
                   /\ DOMAIN kept.items = {low}
                   /\ kept.items[low] = first(node.items[low])
           ELSE kept = ok

\* C19 witness: a node without direct errors that holds a field and an item
\* entry; first() keeps the field and drops the item.
C19_Witness ==
    \E d \in Slots :
        /\ slot[d].errors = <<>>
        /\ DOMAIN slot[d].fields # {}
        /\ DOMAIN slot[d].items # {}
        /\ DOMAIN first(slot[d]).items = {}

\* C20: result() is Ok(()) exactly when is_ok() holds, and otherwise Err of
\* the very tree it was called on.
C20_ResultCarriesTree ==
    \A d \in Slots :
        LET r == result(slot[d])
        IN /\ r.variant \in {"Ok", "Err"}
           /\ r.variant = "Ok" <=> is_ok(slot[d])
           /\ r.variant = "Ok" => r.value = <<>>
           /\ r.variant = "Err" => r.value = slot[d]

\* C20 witness: a node without direct errors whose errors sit in its
\* entries; result() is Err of it.
C20_Witness ==
    \E d \in Slots :
        /\ slot[d].errors = <<>>
        /\ HasGrandchild(slot[d])
        /\ result(slot[d]).variant = "Err"
        /\ result(slot[d]).value = slot[d]

RECURSIVE Concat(_)
Concat(texts) ==
    IF texts = <<>> THEN <<>> ELSE Head(texts) \o Concat(Tail(texts))

\* What step i of path p reads as.
StepText(p, i) ==
    IF p[i].kind = "Name"
    THEN <<".">> \o fmt_path_element(p[i], <<>>)
    ELSE (IF i = 1 THEN <<".">> ELSE <<>>)
            \o <<"[">> \o fmt_usize(p[i].index) \o <<"]">>

\* C15: a path renders as its steps from left to right: "." alone for the
\* empty path; "." and the rendered name for a named step; "[index]" for an
\* indexed step, with a "." before it only when it is the first step.
C15_PathIsStepsInOrder ==
    written # <<>> =>
        written = (IF path = <<>> THEN <<".">>
                   ELSE Concat([i \in 1..Len(path) |-> StepText(path, i)]))

\* C15 witness: the path of an item of an item of a field has been written,
\* with no dot before either index.
C15_Witness ==
    /\ Len(path) = 3
    /\ path[1].kind = "Name"
    /\ path[2].kind = "Index"
    /\ path[3] = Index(10)
    /\ written = fmt_path(path, <<>>)

\* Each quote of the name preceded by a backslash, every other character as
\* it is.
RECURSIVE QuotesEscaped(_)
QuotesEscaped(name) ==
    IF name = <<>> THEN <<>>
    ELSE (IF Head(name) = "\"" THEN <<"\\", "\"">> ELSE <<Head(name)>>)
            \o QuotesEscaped(Tail(name))

\* What a field name reads as.
NameText(name) ==
    IF /\ name # <<>>
       /\ \A i \in 1..Len(name) : name[i] \in AsciiAlphanumeric \cup {"_"}
    THEN name
    ELSE <<"\"">> \o QuotesEscaped(name) \o <<"\"">>

\* C16: a field name is written as it is exactly when it is not empty and
\* made of ASCII letters, digits and underscores only; any other name, the
\* empty one included, is written between double quotes with a backslash
\* before each double quote in it and every other character unchanged.
C16_NameQuotedUnlessPlain ==
    /\ \A i \in 1..Len(path) :
          path[i].kind = "Name" =>
              fmt_path_element(path[i], <<>>) = NameText(path[i].name)
    /\ (Len(path) = 1 /\ path[1].kind = "Name") =>
          written = <<".">> \o NameText(path[1].name)

\* C16 witness: the path of a field whose name holds a quote and a backslash
\* has been written.
C16_Witness ==
    /\ Len(path) = 1
    /\ path[1].kind = "Name"
    /\ \E i, j \in 1..Len(path[1].name) :
          path[1].name[i] = "\"" /\ path[1].name[j] = "\\"
    /\ written = fmt_path(path, <<>>)

\* The parameters the and_param calls leave: for each key the value of the
\* last call that named it.
LastValue(calls, key) ==
    calls[CHOOSE i \in 1..Len(calls) :
              /\ calls[i][1] = key
              /\ \A j \in (i + 1)..Len(calls) : calls[j][1] # key][2]

\* The keys the calls named, in ascending order.
KeysNamed(calls) ==
    SelectSeq(ParamNames, LAMBDA k : \E i \in 1..Len(calls) : calls[i][1] = k)

C21_BulkOkOnNothingToReport ==
    call.name \in {"errors", "fields", "items"} =>
        LET iterator == call.args[1]
            built == slot[call.dst]
            nothing ==
                CASE call.name = "errors" -> iterator = <<>>
                  [] call.name = "fields" ->
                        \A i \in 1..Len(iterator) :
                            is_ok(validate_value(iterator[i].key, iterator[i].value))
                  [] call.name = "items" -> Rejected(iterator) = {}
        IN nothing => is_ok(built) /\ ~is_err(built) /\ display(built) = <<>>

\* C21 witness: items has run over two valid elements.
C21_Witness ==
    /\ call.name = "items"
    /\ Len(call.args[1]) = 2
    /\ Rejected(call.args[1]) = {}

\* The paths of a tree: the steps that lead to each of its nodes, the root's
\* empty path included.
RECURSIVE Paths(_, _)
Paths(node, steps) ==
    {steps}
        \cup UNION {Paths(node.fields[n], Append(steps, [kind |-> "field", name |-> n])) :
                        n \in DOMAIN node.fields}
        \cup UNION {Paths(node.items[i], Append(steps, [kind |-> "item", index |-> i])) :
                        i \in DOMAIN node.items}

\* The direct errors of the node at a path; none where the tree has no node.
ErrorsAt(node, steps) ==
    IF steps \in Paths(node, <<>>) THEN NodeAt(node, steps).errors ELSE <<>>

\* C27: merge neither loses nor duplicates errors: the errors of
\* a.merge(b), counted over all nodes, are as many as those of a plus those
\* of b; the result has a node exactly at the paths of a and of b, and at
\* every path its errors are those of a at that path followed by those of b.
C27_MergeKeepsEveryError ==
    \A d, s \in Slots :
        d # s =>
            LET a == slot[d]
                b == slot[s]
                r == merge(a, b)
            IN /\ ErrorCount(r) = ErrorCount(a) + ErrorCount(b)
               /\ Paths(r, <<>>) = Paths(a, <<>>) \cup Paths(b, <<>>)
               /\ \A p \in Paths(r, <<>>) : ErrorsAt(r, p) = ErrorsAt(a, p) \o ErrorsAt(b, p)

\* C27 witness: two trees that hold different errors at a shared path below
\* the root.
C27_Witness ==
    \E d, s \in Slots :
        /\ d # s
        /\ \E p \in Paths(slot[d], <<>>) \cap Paths(slot[s], <<>>) :
              /\ p # <<>>
              /\ ErrorsAt(slot[d], p) # <<>>
              /\ ErrorsAt(slot[s], p) # <<>>
              /\ ErrorsAt(slot[d], p) # ErrorsAt(slot[s], p)

\* first(x) against the text of x, the comparison of the two texts left open:
\* first(x) is ok for an ok x and holds exactly one direct error otherwise,
\* first(x).is_ok() equals x.is_ok() and first(first(x)) equals first(x).
FirstKeepsOneError(x) ==
    /\ is_ok(x) => first(x) = ok
    /\ ~is_ok(x) => ErrorCount(first(x)) = 1
    /\ is_ok(first(x)) = is_ok(x)
    /\ first(first(x)) = first(x)

\* C28 as stated: first() agrees with the text renderer: for every non-ok
\* tree x, first(x) holds exactly one direct error and its text is the first
\* line of the text of x; for an ok x, first(x) is ok; first(x).is_ok()
\* equals x.is_ok() and first(first(x)) equals first(x).
C28_FirstIsFirstLineAlways ==
    \A d \in Slots :
        LET x == slot[d]
        IN /\ FirstKeepsOneError(x)
           /\ ~is_ok(x) => display(first(x)) = TextLines(display(x))[1]

\* C28 as amended: the same, the text of first(x) being path + ": " +
\* description of the first error of x in rendering order, which is the first
\* line of the text of x when that path and that description hold no newline.
C28_FirstIsFirstLine ==
    \A d \in Slots :
        LET x == slot[d]
        IN /\ FirstKeepsOneError(x)
           /\ ~is_ok(x) =>
                 LET head == PairText(serialize(x)[1])
                 IN /\ display(first(x)) = head
                    /\ serialize(first(x)) = <<serialize(x)[1]>>
                    /\ Newlines(head) = {} => display(first(x)) = TextLines(display(x))[1]

\* C28 witness: a tree of three errors or more whose first error in rendering
\* order sits below the root and holds no newline.
C28_Witness ==
    \E d \in Slots :
        /\ slot[d].errors = <<>>
        /\ ErrorCount(slot[d]) >= 3
        /\ Newlines(PairText(serialize(slot[d])[1])) = {}
        /\ first(slot[d]) # slot[d]

\* C29: every and_* combinator equals a merge with the matching constructor:
\* on every tree t the client owns, and for every argument, t.and_error(e) is
\* t.merge(error(e)), and likewise for and_error_if / error_if, and_errors /
\* errors, and_field / field, and_item / item, and_fields / fields and
\* and_items / items; the closures are invoked alike on both sides.
C29_AndIsMergeOfConstructor ==
    \A d \in Slots :
        LET t == slot[d]
        IN /\ \A e \in Errors :
                 /\ and_error(t, e) = merge(t, error(e))
                 /\ \A c \in BOOLEAN :
                       /\ and_error_if(t, c, e).node = merge(t, error_if(c, e).node)
                       /\ and_error_if(t, c, e).f_calls = error_if(c, e).f_calls
           /\ \A es \in ErrorIters : and_errors(t, es) = merge(t, errors(es))
           /\ \A s \in Slots \ {d} :
                 /\ \A n \in 1..Len(Names) :
                       and_field(t, Names[n], slot[s]) = merge(t, field(Names[n], slot[s]))
                 /\ \A i \in Indices :
                       and_item(t, i, slot[s]) = merge(t, item(i, slot[s]))
           /\ \A iterator \in MapIters :
                 /\ and_fields(t, iterator).node = merge(t, fields(iterator).node)
                 /\ and_fields(t, iterator).f_calls = fields(iterator).f_calls
           /\ \A iterator \in ValueIters :
                 /\ and_items(t, iterator).node = merge(t, items(iterator).node)
                 /\ and_items(t, iterator).f_calls = items(iterator).f_calls

\* C29 witness: a receiver that holds a direct error and an entry, beside a
\* child that is not ok: the combinators have something to merge into.
C29_Witness ==
    \E d, s \in Slots :
        /\ d # s
        /\ slot[d].errors # <<>>
        /\ DOMAIN slot[d].fields \cup DOMAIN slot[d].items # {}
        /\ ~is_ok(slot[s])

\* ---------------------------------------------------------------- C30, C23
\* The declaration holds one field with one bound argument, as DeclareBounded
\* and WritePair leave it.
Bounded ==
    /\ type_.data.variant = "Struct"
    /\ Len(type_.data.fields.fields) = 1

\* What the client wrote: the field, the argument's name and its pairs.
WrittenField == type_.data.fields.fields[1]
WrittenArgument == WrittenField.attrs[1].arguments[1].ident
WrittenPairs == WrittenField.attrs[1].arguments[1].pairs
WrittenNames == {WrittenPairs[i].ident : i \in 1..Len(WrittenPairs)}

\* The bound combinations an argument admits.
Combinations(argument) ==
    IF argument = "range"
    THEN {{"min"}, {"max"}, {"min", "max"}}
    ELSE {{"min"}, {"max"}, {"min", "max"}, {"equal"}}

Measured(argument, value) ==
    CASE argument = "range" -> value.number
      [] argument = "length" -> len(value)
      [] argument = "char_length" -> chars_count(value)

\* Whether the pairs written bound the measure m from the side given: below
\* by a min above it, above by a max below it, or by an equal it differs from.
Violates(pairs, m) ==
    \E i \in 1..Len(pairs) :
        \/ pairs[i].ident = "min" /\ m < pairs[i].value
        \/ pairs[i].ident = "max" /\ m > pairs[i].value
        \/ pairs[i].ident = "equal" /\ m # pairs[i].value

\* C23: the derived bound checks are inclusive: a value validated against a
\* range, length or char_length argument gets an error, one, under its field
\* and with the argument's name as code, exactly when its measure is below
\* min, above max or different from equal; a value on a bound gets none.
C23_BoundsAreInclusive ==
    (Bounded /\ instance # NoInstance) =>
        LET m == Measured(WrittenArgument, instance.fields[1])
        IN IF Violates(WrittenPairs, m)
           THEN /\ slot["x"].errors = <<>>
                /\ DOMAIN slot["x"].items = {}
                /\ DOMAIN slot["x"].fields = {WrittenField.ident.value}
                /\ Len(slot["x"].fields[WrittenField.ident.value].errors) = 1
                /\ slot["x"].fields[WrittenField.ident.value].errors[1].code = WrittenArgument
           ELSE is_ok(slot["x"])

\* C23 witness: a string of two characters in three bytes passed
\* char_length(min = 2, max = 2): it is on both bounds.
C23_Witness ==
    /\ Bounded
    /\ WrittenArgument = "char_length"
    /\ WrittenNames = {"min", "max"}
    /\ \A i \in 1..Len(WrittenPairs) : WrittenPairs[i].value = 2
    /\ instance # NoInstance
    /\ instance.fields[1] = Str(<<"é", "a">>)
    /\ is_ok(slot["x"])

\* --------------------------------------------------------------------- C26
\* The arguments the validate attributes of the type hold, in order.
RECURSIVE ValidateArgumentsIn(_)
ValidateArgumentsIn(attrs) ==
    IF attrs = <<>> THEN <<>>
    ELSE (IF is_validate(Head(attrs)) THEN Head(attrs).arguments ELSE <<>>)
            \o ValidateArgumentsIn(Tail(attrs))

\* The args declarations among them.
ArgsDeclarations ==
    SelectSeq(ValidateArgumentsIn(type_.attrs), LAMBDA tokens : tokens.ident = "args")

\* C26: a type takes zero or one args declaration: once the macro has run on
\* a type whose validate attributes hold two args declarations (and only args
\* and custom arguments), it has returned the error "args" already defined,
\* and the names an implementation destructures its Args tuple into are those
\* of one args declaration at most.
C26_SecondArgsRejected ==
    expanded # NotExpanded =>
        /\ (/\ Len(ArgsDeclarations) >= 2
            /\ \A i \in 1..Len(ValidateArgumentsIn(type_.attrs)) :
                    ValidateArgumentsIn(type_.attrs)[i].ident \in {"args", "custom"})
              => expanded = SynError("\"args\" already defined")
        /\ expanded.variant = "Ok" =>
              \/ expanded.value.arg_names = <<>>
              \/ \E i \in 1..Len(ArgsDeclarations) :
                    expanded.value.arg_names = ArgsDeclarations[i].names

\* --------------------------------------------------------------------- C24
\* Whether a validation function of the tests refuses the number.
Refuses(function, number) ==
    CASE function = "a" -> number % 3 = 0
      [] function = "b" -> number % 4 = 0
      [] function = "c" -> number % 5 = 0

\* The errors of the functions declared in the attributes given, in the
\* order in which they are written, for the number they look at.
ErrorsDeclared(attrs, number) ==
    LET refusing == SelectSeq(ValidateArgumentsIn(attrs),
                              LAMBDA tokens : Refuses(tokens.function, number))
    IN [i \in 1..Len(refusing) |-> with_code(refusing[i].function)]

\* C24: every validator declared for a target is evaluated and the results
\* are merged in declaration order: for custom validators written on the type
\* and on its field, in one validate attribute or in several, the direct
\* errors of the validated value are those of the type's validators that
\* refuse it, in the order written, and the errors under the field are those
\* of the field's validators that refuse the field, in the order written.
C24_MergedInDeclarationOrder ==
    (instance # NoInstance /\ instance.fields # <<>>) =>
        LET number == instance.fields[1].number
            field_ == type_.data.fields.fields[1]
            below == ErrorsDeclared(field_.attrs, number)
        IN /\ slot["x"].errors = ErrorsDeclared(type_.attrs, number)
           /\ DOMAIN slot["x"].items = {}
           /\ IF below = <<>>
              THEN DOMAIN slot["x"].fields = {}
              ELSE /\ DOMAIN slot["x"].fields = {field_.ident.value}
                   /\ slot["x"].fields[field_.ident.value] = [ok EXCEPT !.errors = below]

\* C24 witness: the field carries #[validate(custom = a, custom = b)] and
\* #[validate(custom = c)]; a value all three refuse has the errors a, b, c
\* under the field.
C24_Witness ==
    /\ instance # NoInstance
    /\ instance.fields # <<>>
    /\ Len(type_.data.fields.fields[1].attrs) = 2
    /\ Len(type_.data.fields.fields[1].attrs[1].arguments) = 2
    /\ DOMAIN slot["x"].fields # {}
    /\ slot["x"].fields[IdentOf("u8")].errors = <<with_code("a"), with_code("b"), with_code("c")>>

\* --------------------------------------------------------------------- C25
\* The fields the validated value has: those of the struct, or those of the
\* variant of the enum the value is of.
MatchedFields ==
    IF type_.data.variant = "Struct" THEN type_.data.fields
    ELSE type_.data.variants[CHOOSE i \in 1..Len(type_.data.variants) :
                                type_.data.variants[i].ident = instance.variant].fields

\* The positions, from 1, of the fields among them that carry a validate
\* attribute and hold a value its validator refuses.
RefusedFields ==
    {i \in 1..Len(MatchedFields.fields) :
        /\ \E n \in 1..Len(MatchedFields.fields[i].attrs) :
                is_validate(MatchedFields.fields[i].attrs[n])
        /\ Refuses("a", instance.fields[i].number)}

\* C25: the node of a validated struct or enum value holds the errors of a
\* named field under the field's name and those of a tuple field under its
\* position counted from 0, for the fields of the struct or of the value's
\* variant that carry a validator which refuses them, and holds nothing else:
\* nothing for a field without validate attribute, nothing for the fields of
\* the other variants.
C25_FieldsUnderNameOrPosition ==
    instance # NoInstance =>
        /\ slot["x"].errors = <<>>
        /\ IF MatchedFields.variant = "Named"
           THEN /\ DOMAIN slot["x"].items = {}
                /\ DOMAIN slot["x"].fields =
                        {MatchedFields.fields[i].ident.value : i \in RefusedFields}
                /\ \A i \in RefusedFields :
                        slot["x"].fields[MatchedFields.fields[i].ident.value] =
                            [ok EXCEPT !.errors = <<with_code("a")>>]
           ELSE /\ DOMAIN slot["x"].fields = {}
                /\ DOMAIN slot["x"].items = {i - 1 : i \in RefusedFields}
                /\ \A i \in RefusedFields :
                        slot["x"].items[i - 1] = [ok EXCEPT !.errors = <<with_code("a")>>]

\* C25 witness: an enum whose first variant has a validated field; a value of
\* its second variant, a tuple of a plain field and a validated one that is
\* refused, has the error under index 1 and nothing else.
C25_Witness ==
    /\ instance # NoInstance
    /\ type_.data.variant = "Enum"
    /\ Len(type_.data.variants) = 2
    /\ \E n \in 1..Len(type_.data.variants[1].fields.fields) :
            type_.data.variants[1].fields.fields[n].attrs # <<>>
    /\ instance.variant = VariantIdents[2]
    /\ MatchedFields.variant = "Unnamed"
    /\ RefusedFields = {2}
    /\ MatchedFields.fields[1].attrs = <<>>
    /\ Refuses("a", instance.fields[1].number)
    /\ DOMAIN slot["x"].items = {1}

\* --------------------------------------------------------------------- C22
\* The four lines the crate's example expects of node.to_string().
ExampleLines ==
    <<<<".", "a", "g", "e", ":", " ", "r", "a", "n", "g", "e", ":", " ", "N", "u", "m",
        "b", "e", "r", " ", "n", "o", "t", " ", "i", "n", " ", "r", "a", "n", "g", "e",
        ":", " ", "m", "a", "x", "=", "1", "0", "0", ",", " ", "m", "i", "n", "=", "1",
        "5", ",", " ", "v", "a", "l", "u", "e", "=", "2", "0", "0">>,
      <<".", "c", "a", "r", "s", ":", " ", "l", "e", "n", "g", "t", "h", ":", " ", "I",
        "n", "v", "a", "l", "i", "d", " ", "l", "e", "n", "g", "t", "h", ":", " ", "m",
        "a", "x", "=", "3", ",", " ", "v", "a", "l", "u", "e", "=", "4">>,
      <<".", "c", "a", "r", "s", "[", "2", "]", ":", " ", "c", "h", "a", "r", "_", "l",
        "e", "n", "g", "t", "h", ":", " ", "I", "n", "v", "a", "l", "i", "d", " ", "c",
        "h", "a", "r", "a", "c", "t", "e", "r", " ", "l", "e", "n", "g", "t", "h", ":",
        " ", "m", "a", "x", "=", "5", "0", ",", " ", "v", "a", "l", "u", "e", "=", "5",
        "5">>,
      <<".", "n", "i", "c", "k", ":", " ", "a", "l", "p", "h", "a", "_", "o", "n", "l",
        "y">>>>

\* The codes of the direct errors of the node under a field name, none for
\* a name without entry; and the codes of all direct errors.
CodesOf(node) == [i \in 1..Len(node.errors) |-> node.errors[i].code]
CodesUnder(node, name) ==
    IF name \in DOMAIN node.fields THEN CodesOf(node.fields[name]) ELSE <<>>

\* The constraints of User a value violates, by the codes of their errors in
\* declaration order.
NickViolations(nick) ==
    (IF \E i \in 1..Len(nick.chars) : nick.chars[i] \notin AsciiAlphanumeric \cup {"é"}
     THEN <<"alpha_only">> ELSE <<>>)
    \o (IF Len(nick.chars) > 30 THEN <<"char_length">> ELSE <<>>)
AgeViolations(age) ==
    IF age.number < 15 \/ age.number > 100 THEN <<"range">> ELSE <<>>
CarsViolations(cars) ==
    IF Len(cars.items) > 3 THEN <<"length">> ELSE <<>>
LongCars(cars) == {i \in 1..Len(cars.items) : Len(cars.items[i].chars) > 50}

\* C22: validation accumulates every violation: the tree of a validated User
\* holds, under each field and under each element of cars, the error of every
\* constraint the value violates there whatever else it violates, and no
\* other; its text has one line per violation; and the example's user
\* renders the four lines .age, .cars, .cars[2], .nick of the crate's
\* documentation.
C22_EveryViolationReported ==
    (type_ = User /\ instance # NoInstance) =>
        LET nick == instance.fields[1]
            age == instance.fields[2]
            cars == instance.fields[3]
            node == slot["x"]
            cars_node == IF "cars" \in DOMAIN node.fields THEN node.fields["cars"] ELSE ok
        IN /\ node.errors = <<>>
           /\ DOMAIN node.items = {}
           /\ CodesUnder(node, "nick") = NickViolations(nick)
           /\ CodesUnder(node, "age") = AgeViolations(age)
           /\ CodesUnder(node, "cars") = CarsViolations(cars)
           /\ DOMAIN cars_node.items = {i - 1 : i \in LongCars(cars)}
           /\ \A i \in LongCars(cars) : CodesOf(cars_node.items[i - 1]) = <<"char_length">>
           /\ Len(TextLines(display(node))) =
                    Len(NickViolations(nick)) + Len(AgeViolations(age))
                    + Len(CarsViolations(cars)) + Cardinality(LongCars(cars))
           /\ instance = ExampleUser => display(node) = JoinLines(ExampleLines)

\* C22 witness: the example's user has been validated and renders the four
\* lines.
C22_Witness ==
    /\ type_ = User
    /\ instance = ExampleUser
    /\ TextLines(display(slot["x"])) = ExampleLines

====
